---------------------------- MODULE Spec2Model ----------------------------
(***************************************************************************)
(* A run of one example script of the PyMechanical embedding gallery.      *)
(*                                                                         *)
(* Every script under src/examples is a straight-line program.  A run is   *)
(* modelled as a program counter moving over the script's top-level        *)
(* statements.  The statements that matter to the workflow are steps of    *)
(* their own: session bootstrap, download_file, reading a fixture into     *)
(* the application, Solve, reading and asserting a solution status, image  *)
(* export, save, new, close and delete_downloads, and the assignments of   *)
(* step settings, loads, names and result properties.  Runs of other       *)
(* consecutive statements are folded into one "block" step that keeps the  *)
(* names the run binds and the names it reads before binding them.         *)
(*                                                                         *)
(* What the embedded application and its solver answer is the environment: *)
(* the status a solve ends with, whether a download succeeds, whether an   *)
(* object-state assertion holds and which fixtures are already cached are  *)
(* chosen nondeterministically.                                            *)
(***************************************************************************)
EXTENDS Naturals, Sequences, FiniteSets, TLC

\* One top-level statement (or folded run of statements) of a script:
\*   line, last  first and last source line
\*   op          the kind of step
\*   arg         the fixture (download, read_fixture, open), the file written
\*               (export, save, save_as), the bootstrap form (App,
\*               global_variables), the function name (def), "*" for a star import,
\*               the property assigned (set_result, set_solve_config), the kind
\*               of analysis added (add_analysis, solve) or of result added
\*               (add_result, add_contact_pressure), the index into
\*               Model.Analyses (analysis_ref, prestress), the source analysis
\*               (transfer), the number assigned (number_of_steps, select_step),
\*               the seconds assigned (step_end_time), the name compared or
\*               assigned (lookup, set_name), the text appended (wear_table),
\*               the file name the path ends in (show_solve_out)
\*   obj         the solution or analysis object a Solve / Status access is made
\*               on, the result a property is set on, the target of a transfer,
\*               the settings object (number_of_steps, select_step,
\*               step_end_time), the load component (set_load), the element
\*               taken of the matches (lookup), the object named (set_name)
\*   var         the variable a download or a status read assigns, or the
\*               status variable an assertion inspects, the variable a result,
\*               an analysis or a lookup is assigned to, the value assigned to
\*               a property or a load, the display time passed to
\*               set_properties_for_result or add_contact_pressure
\*   wait        whether Solve is passed True
\*   defs        the names the step binds
\*   uses        the names the step reads before binding them itself
\*   calls       the helper functions of the script the step references
S(line, last, op, arg, obj, var, wait, defs, uses, calls) ==
  [line |-> line, last |-> last, op |-> op, arg |-> arg, obj |-> obj,
   var |-> var, wait |-> wait, defs |-> defs, uses |-> uses, calls |-> calls]

\* The symbols session bootstrap injects into the script's globals (Model,
\* ExtAPI, DataModel, Tree, Graphics, Quantity, Ansys and the enumeration
\* types).  A name counts as one of them when no script of the gallery ever
\* binds it with a statement of its own; they are tracked as one token.
ApiToken == "<api>"

\* tips_01.py with the cleanup call of line 53 left out.
tips_01_without_cleanup ==
  <<
  S(13, 14, "import", "", "", "", FALSE, {"App", "delete_downloads", "download_file"}, {}, {}),
  S(20, 20, "App", "globals", "", "", FALSE, {"app"}, {"App"}, {}),
  S(21, 21, "block", "", "", "", FALSE, {}, {"app"}, {}),
  S(29, 29, "download", "pymechanical/embedding/Valve.pmdb", "", "geometry_path", FALSE, {"geometry_path"}, {"download_file"}, {}),
  S(33, 35, "block", "", "", "", FALSE, {"geometry_import", "model"}, {"app"}, {}),
  S(36, 36, "read_fixture", "pymechanical/embedding/Valve.pmdb", "", "", FALSE, {}, {"geometry_import", "geometry_path"}, {}),
  S(42, 42, "block", "", "", "", FALSE, {}, {"app"}, {}),
  S(56, 56, "new", "", "", "", FALSE, {}, {"app"}, {})
  >>

\* tips_02.py with lines 114 and 117 exchanged: the application is reset
\* before the downloads are deleted.
tips_02_reset_first ==
  <<
  S(13, 16, "import", "", "", "", FALSE, {"App", "Path", "delete_downloads", "download_file"}, {}, {}),
  S(22, 22, "App", "plain", "", "", FALSE, {"app"}, {"App"}, {}),
  S(25, 25, "update_globals", "", "", "", FALSE, {}, {"app"}, {}),
  S(28, 28, "block", "", "", "", FALSE, {}, {"app"}, {}),
  S(35, 35, "download", "pymechanical/embedding/Valve.pmdb", "", "geometry_path", FALSE, {"geometry_path"}, {"download_file"}, {}),
  S(40, 40, "block", "", "", "", FALSE, {"geometry_import"}, {"<api>"}, {}),
  S(41, 41, "read_fixture", "pymechanical/embedding/Valve.pmdb", "", "", FALSE, {}, {"geometry_import", "geometry_path"}, {}),
  S(48, 62, "block", "", "", "", FALSE, {"image_export_format", "settings_720p"}, {"<api>"}, {}),
  S(68, 69, "import", "", "", "", FALSE, {"mpimg", "plt"}, {}, {}),
  S(72, 72, "block", "", "", "", FALSE, {"output_path"}, {"Path"}, {}),
  S(75, 92, "def", "display_image", "", "", FALSE, {"display_image"}, {}, {}),
  S(100, 103, "block", "", "", "", FALSE, {"geometry_image"}, {"<api>", "output_path"}, {}),
  S(104, 104, "export", "", "", "", FALSE, {}, {"<api>", "geometry_image", "image_export_format", "settings_720p"}, {}),
  S(107, 107, "call", "", "", "", FALSE, {}, {"display_image", "geometry_image"}, {"display_image"}),
  S(117, 117, "new", "", "", "", FALSE, {}, {"app"}, {}),
  S(114, 114, "delete_downloads", "", "", "", FALSE, {}, {"delete_downloads"}, {})
  >>

\* src/examples/00_tips/tips_01.py: the helper functions the script defines, each with the
\* global names its body reads (free) and the helpers it references (calls).
tips_01_defs ==
  <<>>

\* src/examples/00_tips/tips_01.py: the script's top-level statements in execution order.
tips_01 ==
  <<
  S(13, 14, "import", "", "", "", FALSE, {"App", "delete_downloads", "download_file"}, {}, {}),
  S(20, 20, "App", "globals", "", "", FALSE, {"app"}, {"App"}, {}),
  S(21, 21, "block", "", "", "", FALSE, {}, {"app"}, {}),
  S(29, 29, "download", "pymechanical/embedding/Valve.pmdb", "", "geometry_path", FALSE, {"geometry_path"}, {"download_file"}, {}),
  S(33, 35, "block", "", "", "", FALSE, {"geometry_import", "model"}, {"app"}, {}),
  S(36, 36, "read_fixture", "pymechanical/embedding/Valve.pmdb", "", "", FALSE, {}, {"geometry_import", "geometry_path"}, {}),
  S(42, 42, "block", "", "", "", FALSE, {}, {"app"}, {}),
  S(53, 53, "delete_downloads", "", "", "", FALSE, {}, {"delete_downloads"}, {}),
  S(56, 56, "new", "", "", "", FALSE, {}, {"app"}, {})
  >>

\* src/examples/00_tips/tips_02.py: the helper functions the script defines, each with the
\* global names its body reads (free) and the helpers it references (calls).
tips_02_defs ==
  [display_image |-> [free |-> {"mpimg", "output_path", "plt"}, calls |-> {}]]

\* src/examples/00_tips/tips_02.py: the script's top-level statements in execution order.
tips_02 ==
  <<
  S(13, 16, "import", "", "", "", FALSE, {"App", "Path", "delete_downloads", "download_file"}, {}, {}),
  S(22, 22, "App", "plain", "", "", FALSE, {"app"}, {"App"}, {}),
  S(25, 25, "update_globals", "", "", "", FALSE, {}, {"app"}, {}),
  S(28, 28, "block", "", "", "", FALSE, {}, {"app"}, {}),
  S(35, 35, "download", "pymechanical/embedding/Valve.pmdb", "", "geometry_path", FALSE, {"geometry_path"}, {"download_file"}, {}),
  S(40, 40, "block", "", "", "", FALSE, {"geometry_import"}, {"<api>"}, {}),
  S(41, 41, "read_fixture", "pymechanical/embedding/Valve.pmdb", "", "", FALSE, {}, {"geometry_import", "geometry_path"}, {}),
  S(48, 62, "block", "", "", "", FALSE, {"image_export_format", "settings_720p"}, {"<api>"}, {}),
  S(68, 69, "import", "", "", "", FALSE, {"mpimg", "plt"}, {}, {}),
  S(72, 72, "block", "", "", "", FALSE, {"output_path"}, {"Path"}, {}),
  S(75, 92, "def", "display_image", "", "", FALSE, {"display_image"}, {}, {}),
  S(100, 103, "block", "", "", "", FALSE, {"geometry_image"}, {"<api>", "output_path"}, {}),
  S(104, 104, "export", "", "", "", FALSE, {}, {"<api>", "geometry_image", "image_export_format", "settings_720p"}, {}),
  S(107, 107, "call", "", "", "", FALSE, {}, {"display_image", "geometry_image"}, {"display_image"}),
  S(114, 114, "delete_downloads", "", "", "", FALSE, {}, {"delete_downloads"}, {}),
  S(117, 117, "new", "", "", "", FALSE, {}, {"app"}, {})
  >>

\* src/examples/00_tips/tips_03.py: the helper functions the script defines, each with the
\* global names its body reads (free) and the helpers it references (calls).
tips_03_defs ==
  <<>>

\* src/examples/00_tips/tips_03.py: the script's top-level statements in execution order.
tips_03 ==
  <<
  S(14, 15, "import", "", "", "", FALSE, {"App", "delete_downloads", "download_file"}, {}, {}),
  S(20, 20, "App", "globals", "", "", FALSE, {"app"}, {"App"}, {}),
  S(21, 21, "block", "", "", "", FALSE, {}, {"app"}, {}),
  S(27, 27, "download", "pymechanical/test_files/graphics_test.mechdb", "", "mechdb_path", FALSE, {"mechdb_path"}, {"download_file"}, {}),
  S(32, 32, "open", "pymechanical/test_files/graphics_test.mechdb", "", "", FALSE, {}, {"app", "mechdb_path"}, {}),
  S(38, 38, "block", "", "", "", FALSE, {}, {"app"}, {}),
  S(44, 44, "analysis_ref", "0", "", "", FALSE, {"first_analysis"}, {"app"}, {}),
  S(45, 45, "block", "", "", "", FALSE, {}, {"app", "first_analysis"}, {}),
  S(53, 53, "delete_downloads", "", "", "", FALSE, {}, {"delete_downloads"}, {}),
  S(56, 56, "new", "", "", "", FALSE, {}, {"app"}, {})
  >>

\* src/examples/00_tips/tips_04.py: the helper functions the script defines, each with the
\* global names its body reads (free) and the helpers it references (calls).
tips_04_defs ==
  <<>>

\* src/examples/00_tips/tips_04.py: the script's top-level statements in execution order.
tips_04 ==
  <<
  S(14, 16, "import", "", "", "", FALSE, {"add_mechanical_python_libraries", "delete_downloads", "download_file", "mech"}, {}, {}),
  S(21, 21, "App", "plain", "", "", FALSE, {"app"}, {"mech"}, {}),
  S(22, 22, "update_globals", "", "", "", FALSE, {}, {"app"}, {}),
  S(23, 23, "block", "", "", "", FALSE, {}, {"app"}, {}),
  S(30, 30, "download", "pymechanical/embedding/Valve.pmdb", "", "geometry_path", FALSE, {"geometry_path"}, {"download_file"}, {}),
  S(35, 35, "block", "", "", "", FALSE, {"geometry_import"}, {"<api>"}, {}),
  S(36, 36, "read_fixture", "pymechanical/embedding/Valve.pmdb", "", "", FALSE, {}, {"geometry_import", "geometry_path"}, {}),
  S(41, 41, "import", "", "", "", FALSE, {"sys"}, {}, {}),
  S(43, 48, "block", "", "", "", FALSE, {}, {"add_mechanical_python_libraries", "app", "sys"}, {}),
  S(53, 53, "import", "", "", "", FALSE, {"materials"}, {}, {}),
  S(55, 58, "block", "", "", "", FALSE, {"body", "mat"}, {"<api>", "materials"}, {}),
  S(65, 65, "delete_downloads", "", "", "", FALSE, {}, {"delete_downloads"}, {}),
  S(66, 66, "new", "", "", "", FALSE, {}, {"app"}, {})
  >>

\* src/examples/00_tips/tips_05.py: the helper functions the script defines, each with the
\* global names its body reads (free) and the helpers it references (calls).
tips_05_defs ==
  <<>>

\* src/examples/00_tips/tips_05.py: the script's top-level statements in execution order.
tips_05 ==
  <<
  S(14, 15, "import", "", "", "", FALSE, {"add_mechanical_python_libraries", "mech"}, {}, {}),
  S(20, 20, "App", "plain", "", "", FALSE, {"app"}, {"mech"}, {}),
  S(21, 21, "update_globals", "", "", "", FALSE, {}, {"app"}, {}),
  S(22, 28, "block", "", "", "", FALSE, {}, {"add_mechanical_python_libraries", "app"}, {}),
  S(39, 39, "new", "", "", "", FALSE, {}, {"app"}, {})
  >>

\* src/examples/01_basic/harmonic_acoustics.py: the helper functions the script defines, each with the
\* global names its body reads (free) and the helpers it references (calls).
basic01_harmonic_acoustics_defs ==
  [set_camera_and_display_image |-> [free |-> {"display_image", "image_export_format"}, calls |-> {"display_image"}],
   display_image |-> [free |-> {"mpimg", "plt"}, calls |-> {}],
   get_ns_generation_criteria |-> [free |-> {"<api>"}, calls |-> {}],
   add_ns_criterion |-> [free |-> {"<api>"}, calls |-> {}],
   update_animation |-> [free |-> {"gif", "image"}, calls |-> {}]]

\* src/examples/01_basic/harmonic_acoustics.py: the script's top-level statements in execution order.
basic01_harmonic_acoustics ==
  <<
  S(16, 23, "import", "", "", "", FALSE, {"App", "FuncAnimation", "Image", "Path", "delete_downloads", "download_file", "mpimg", "plt"}, {}, {}),
  S(28, 28, "App", "globals", "", "", FALSE, {"app"}, {"App"}, {}),
  S(29, 36, "block", "", "", "", FALSE, {"output_path"}, {"Path", "app"}, {}),
  S(39, 69, "def", "set_camera_and_display_image", "", "", FALSE, {"set_camera_and_display_image"}, {"<api>", "Path"}, {}),
  S(72, 105, "def", "display_image", "", "", FALSE, {"display_image"}, {}, {}),
  S(112, 135, "block", "", "", "", FALSE, {"camera", "geometry_import", "geometry_import_format", "geometry_import_preferences", "graphics", "image_export_format", "model", "settings_720p"}, {"<api>", "app"}, {}),
  S(137, 137, "download", "pymechanical/embedding/C_GEOMETRY.agdb", "", "geometry_path", FALSE, {"geometry_path"}, {"download_file"}, {}),
  S(138, 140, "read_fixture", "pymechanical/embedding/C_GEOMETRY.agdb", "", "", FALSE, {}, {"geometry_import", "geometry_import_format", "geometry_import_preferences", "geometry_path"}, {}),
  S(146, 165, "block", "", "", "", FALSE, {"child", "connections", "geometry", "materials", "mesh", "named_selections", "solid", "suppressed_solids"}, {"app", "model"}, {}),
  S(172, 172, "add_analysis", "HarmonicAcoustic", "", "", FALSE, {}, {"model"}, {}),
  S(173, 173, "block", "", "", "", FALSE, {}, {"<api>", "app"}, {}),
  S(179, 179, "download", "pymechanical/embedding/Air-material.xml", "", "mat_path", FALSE, {"mat_path"}, {"download_file"}, {}),
  S(180, 180, "read_fixture", "pymechanical/embedding/Air-material.xml", "", "", FALSE, {}, {"mat_path", "materials"}, {}),
  S(183, 204, "block", "", "", "", FALSE, {"child", "coordinate_system", "coordinate_systems", "material_solids", "solid"}, {"<api>", "geometry", "mesh", "model"}, {}),
  S(211, 234, "def", "get_ns_generation_criteria", "", "", FALSE, {"get_ns_generation_criteria"}, {"<api>"}, {}),
  S(237, 274, "def", "add_ns_criterion", "", "", FALSE, {"add_ns_criterion"}, {"<api>"}, {}),
  S(278, 278, "call", "", "", "", FALSE, {"generation_criteria", "sf_velo"}, {"get_ns_generation_criteria", "model"}, {"get_ns_generation_criteria"}),
  S(279, 279, "call", "", "", "", FALSE, {}, {"<api>", "add_ns_criterion", "generation_criteria"}, {"add_ns_criterion"}),
  S(280, 285, "call", "", "", "", FALSE, {}, {"<api>", "add_ns_criterion", "generation_criteria"}, {"add_ns_criterion"}),
  S(287, 288, "block", "", "", "", FALSE, {}, {"sf_velo"}, {}),
  S(291, 291, "call", "", "", "", FALSE, {"abs_face", "generation_criteria"}, {"get_ns_generation_criteria", "model"}, {"get_ns_generation_criteria"}),
  S(292, 292, "call", "", "", "", FALSE, {}, {"<api>", "add_ns_criterion", "generation_criteria"}, {"add_ns_criterion"}),
  S(293, 298, "call", "", "", "", FALSE, {}, {"<api>", "add_ns_criterion", "generation_criteria"}, {"add_ns_criterion"}),
  S(300, 301, "block", "", "", "", FALSE, {}, {"abs_face"}, {}),
  S(304, 304, "call", "", "", "", FALSE, {"generation_criteria", "pres_face"}, {"get_ns_generation_criteria", "model"}, {"get_ns_generation_criteria"}),
  S(305, 305, "call", "", "", "", FALSE, {}, {"<api>", "add_ns_criterion", "generation_criteria"}, {"add_ns_criterion"}),
  S(306, 311, "call", "", "", "", FALSE, {}, {"<api>", "add_ns_criterion", "generation_criteria"}, {"add_ns_criterion"}),
  S(313, 314, "block", "", "", "", FALSE, {}, {"pres_face"}, {}),
  S(317, 319, "call", "", "", "", FALSE, {"acoustic_region", "generation_criteria"}, {"get_ns_generation_criteria", "model"}, {"get_ns_generation_criteria"}),
  S(320, 325, "call", "", "", "", FALSE, {}, {"<api>", "add_ns_criterion", "generation_criteria"}, {"add_ns_criterion"}),
  S(327, 328, "block", "", "", "", FALSE, {}, {"acoustic_region"}, {}),
  S(334, 334, "analysis_ref", "0", "", "", FALSE, {"analysis_settings"}, {"model"}, {}),
  S(335, 339, "block", "", "", "", FALSE, {}, {"<api>", "analysis_settings"}, {}),
  S(346, 346, "analysis_ref", "0", "", "", FALSE, {"harmonic_acoustics"}, {"model"}, {}),
  S(351, 353, "lookup", "Acoustics Region", "0", "acoustics_region", FALSE, {"acoustics_region"}, {"harmonic_acoustics"}, {}),
  S(354, 360, "block", "", "", "", FALSE, {"surface_velocity"}, {"acoustic_region", "acoustics_region", "harmonic_acoustics", "sf_velo"}, {}),
  S(361, 361, "set_load", "", "surface_velocity.Magnitude.Output", "[Quantity('5000 [mm s-1]')]", FALSE, {}, {"<api>", "surface_velocity"}, {}),
  S(366, 374, "block", "", "", "", FALSE, {"absorption_surface", "acoustic_pressure"}, {"<api>", "abs_face", "harmonic_acoustics", "pres_face"}, {}),
  S(375, 375, "set_load", "", "absorption_surface.AbsorptionCoefficient.Output", "[Quantity('0.02')]", FALSE, {}, {"<api>", "absorption_surface"}, {}),
  S(378, 378, "block", "", "", "", FALSE, {}, {"harmonic_acoustics"}, {}),
  S(379, 381, "export", "boundary_conditions.png", "", "", FALSE, {}, {"camera", "graphics", "output_path", "set_camera_and_display_image", "settings_720p"}, {"set_camera_and_display_image"}),
  S(388, 388, "analysis_ref", "0", "", "", FALSE, {"solution"}, {"model"}, {}),
  S(393, 483, "block", "", "", "", FALSE, {"acoustic_ke", "acoustic_potential_energy", "acoustic_pressure_result", "acoustic_spl", "acoustic_weighted_sound_pressure_level", "av_frequency_response", "directional_av_result", "directional_av_result_2", "directional_av_result_3", "ke_display", "ke_frequency_response", "pe_display", "pe_frequency_response", "total_av_result", "total_av_result_2"}, {"<api>", "abs_face", "coordinate_system", "pres_face", "solution"}, {}),
  S(489, 489, "solve", "", "Model.Analyses[0].Solution", "", TRUE, {}, {"solution"}, {}),
  S(493, 493, "assert_status", "", "Model.Analyses[0].Solution", "", FALSE, {}, {"solution"}, {}),
  S(500, 516, "block", "", "", "", FALSE, {"message", "messages"}, {"acoustic_pressure_result", "app"}, {}),
  S(517, 519, "export", "acoustic_pressure.png", "", "", FALSE, {}, {"camera", "graphics", "output_path", "set_camera_and_display_image", "settings_720p"}, {"set_camera_and_display_image"}),
  S(525, 525, "block", "", "", "", FALSE, {}, {"app", "total_av_result"}, {}),
  S(526, 528, "export", "total_velocity.png", "", "", FALSE, {}, {"camera", "graphics", "output_path", "set_camera_and_display_image", "settings_720p"}, {"set_camera_and_display_image"}),
  S(534, 534, "block", "", "", "", FALSE, {}, {"acoustic_spl", "app"}, {}),
  S(535, 537, "export", "sound_pressure.png", "", "", FALSE, {}, {"camera", "graphics", "output_path", "set_camera_and_display_image", "settings_720p"}, {"set_camera_and_display_image"}),
  S(543, 543, "block", "", "", "", FALSE, {}, {"app", "total_av_result_2"}, {}),
  S(544, 546, "export", "total_velocity_pressure.png", "", "", FALSE, {}, {"camera", "graphics", "output_path", "set_camera_and_display_image", "settings_720p"}, {"set_camera_and_display_image"}),
  S(552, 552, "block", "", "", "", FALSE, {}, {"acoustic_ke", "app"}, {}),
  S(553, 555, "export", "kinetic_energy.png", "", "", FALSE, {}, {"camera", "graphics", "output_path", "set_camera_and_display_image", "settings_720p"}, {"set_camera_and_display_image"}),
  S(561, 567, "block", "", "", "", FALSE, {"animation_export_format", "press_gif_path", "settings_720p"}, {"<api>", "output_path"}, {}),
  S(570, 572, "export", "", "", "", FALSE, {}, {"acoustic_pressure_result", "animation_export_format", "press_gif_path", "settings_720p"}, {}),
  S(575, 593, "def", "update_animation", "", "", FALSE, {"update_animation"}, {"mpimg"}, {}),
  S(597, 602, "block", "", "", "", FALSE, {"axes", "figure", "gif", "image"}, {"Image", "plt", "press_gif_path"}, {}),
  S(606, 613, "call", "", "", "", FALSE, {}, {"FuncAnimation", "figure", "gif", "update_animation"}, {"update_animation"}),
  S(616, 625, "block", "", "", "", FALSE, {"solve_out_path", "solve_path"}, {"Path", "harmonic_acoustics", "plt"}, {}),
  S(627, 630, "show_solve_out", "solve.out", "", "", FALSE, {"file", "line"}, {"solve_out_path"}, {}),
  S(636, 643, "block", "", "", "", FALSE, {"mechdat_path"}, {"app", "output_path"}, {}),
  S(644, 644, "save", "str(mechdat_path)", "", "", FALSE, {}, {"app", "mechdat_path"}, {}),
  S(647, 647, "new", "", "", "", FALSE, {}, {"app"}, {}),
  S(650, 650, "delete_downloads", "", "", "", FALSE, {}, {"delete_downloads"}, {})
  >>

\* src/examples/01_basic/modal_acoustics_analysis.py: the helper functions the script defines, each with the
\* global names its body reads (free) and the helpers it references (calls).
basic01_modal_acoustics_analysis_defs ==
  [set_camera_and_display_image |-> [free |-> {"display_image", "image_export_format"}, calls |-> {"display_image"}],
   display_image |-> [free |-> {"mpimg", "plt"}, calls |-> {}],
   update_animation |-> [free |-> {"gif", "image"}, calls |-> {}]]

\* src/examples/01_basic/modal_acoustics_analysis.py: the script's top-level statements in execution order.
basic01_modal_acoustics_analysis ==
  <<
  S(22, 29, "import", "", "", "", FALSE, {"App", "FuncAnimation", "Image", "Path", "delete_downloads", "download_file", "mpimg", "plt"}, {}, {}),
  S(34, 34, "App", "globals", "", "", FALSE, {"app"}, {"App"}, {}),
  S(35, 42, "block", "", "", "", FALSE, {"output_path"}, {"Path", "app"}, {}),
  S(45, 75, "def", "set_camera_and_display_image", "", "", FALSE, {"set_camera_and_display_image"}, {"<api>", "Path"}, {}),
  S(78, 111, "def", "display_image", "", "", FALSE, {"display_image"}, {}, {}),
  S(118, 128, "block", "", "", "", FALSE, {"camera", "graphics", "image_export_format", "settings_720p"}, {"<api>", "app"}, {}),
  S(134, 134, "download", "pymechanical/embedding/sloshing_geometry.agdb", "", "geometry_path", FALSE, {"geometry_path"}, {"download_file"}, {}),
  S(135, 135, "download", "pymechanical/embedding/Water_material_explicit.xml", "", "mat_path", FALSE, {"mat_path"}, {"download_file"}, {}),
  S(142, 149, "block", "", "", "", FALSE, {"geometry_import", "geometry_import_format", "geometry_import_group", "geometry_import_preferences", "model"}, {"<api>", "app"}, {}),
  S(150, 152, "read_fixture", "pymechanical/embedding/sloshing_geometry.agdb", "", "", FALSE, {}, {"geometry_import", "geometry_import_format", "geometry_import_preferences", "geometry_path"}, {}),
  S(154, 156, "export", "geometry.png", "", "", FALSE, {}, {"camera", "graphics", "output_path", "set_camera_and_display_image", "settings_720p"}, {"set_camera_and_display_image"}),
  S(162, 166, "block", "", "", "", FALSE, {"connections", "geometry", "materials", "mesh", "named_selections"}, {"model"}, {}),
  S(172, 172, "add_analysis", "ModalAcoustic", "", "", FALSE, {}, {"model"}, {}),
  S(173, 173, "block", "", "", "", FALSE, {}, {"<api>", "app"}, {}),
  S(174, 174, "read_fixture", "pymechanical/embedding/Water_material_explicit.xml", "", "", FALSE, {}, {"mat_path", "materials"}, {}),
  S(175, 175, "block", "", "", "", FALSE, {}, {}, {}),
  S(181, 187, "lookup", "Acoustic_bodies", "0", "acst_bodies", FALSE, {"acst_bodies"}, {"<api>", "named_selections"}, {}),
  S(188, 194, "lookup", "Structural_bodies", "0", "struct_bodies", FALSE, {"struct_bodies"}, {"<api>", "named_selections"}, {}),
  S(195, 201, "lookup", "top_bodies", "0", "top_bodies", FALSE, {"top_bodies"}, {"<api>", "named_selections"}, {}),
  S(202, 208, "lookup", "container_bodies", "0", "cont_bodies", FALSE, {"cont_bodies"}, {"<api>", "named_selections"}, {}),
  S(209, 215, "lookup", "Cont_V1", "0", "cont_V1", FALSE, {"cont_V1"}, {"<api>", "named_selections"}, {}),
  S(216, 222, "lookup", "Cont_V2", "0", "cont_V2", FALSE, {"cont_V2"}, {"<api>", "named_selections"}, {}),
  S(223, 229, "lookup", "Cont_V3", "0", "cont_V3", FALSE, {"cont_V3"}, {"<api>", "named_selections"}, {}),
  S(230, 236, "lookup", "Cont_face1", "0", "cont_face1", FALSE, {"cont_face1"}, {"<api>", "named_selections"}, {}),
  S(237, 243, "lookup", "Cont_face2", "0", "cont_face2", FALSE, {"cont_face2"}, {"<api>", "named_selections"}, {}),
  S(244, 250, "lookup", "Cont_face3", "0", "cont_face3", FALSE, {"cont_face3"}, {"<api>", "named_selections"}, {}),
  S(251, 257, "lookup", "Cont_face4", "0", "cont_face4", FALSE, {"cont_face4"}, {"<api>", "named_selections"}, {}),
  S(258, 264, "lookup", "Free_faces", "0", "free_faces", FALSE, {"free_faces"}, {"<api>", "named_selections"}, {}),
  S(265, 271, "lookup", "FSI_faces", "0", "fsi_faces", FALSE, {"fsi_faces"}, {"<api>", "named_selections"}, {}),
  S(273, 277, "lookup", "Solid1", "0", "solid1", FALSE, {"solid1"}, {"<api>", "geometry"}, {}),
  S(278, 282, "lookup", "Solid2", "0", "solid2", FALSE, {"solid2"}, {"<api>", "geometry"}, {}),
  S(283, 287, "lookup", "Solid3", "0", "solid3", FALSE, {"solid3"}, {"<api>", "geometry"}, {}),
  S(288, 292, "lookup", "Solid4", "0", "solid4", FALSE, {"solid4"}, {"<api>", "geometry"}, {}),
  S(298, 338, "block", "", "", "", FALSE, {"method1", "method2", "method3", "sizing1", "sizing2"}, {"<api>", "acst_bodies", "cont_bodies", "mesh", "solid1", "solid2", "solid3", "solid4", "top_bodies"}, {}),
  S(340, 340, "export", "mesh.png", "", "", FALSE, {}, {"camera", "graphics", "output_path", "set_camera_and_display_image", "settings_720p"}, {"set_camera_and_display_image"}),
  S(346, 394, "block", "", "", "", FALSE, {"cnv4", "connection_group", "cont_V4", "contact_region_1", "contact_region_2", "contact_region_3", "contact_region_4", "sel_manager"}, {"<api>", "app", "connections", "cont_V1", "cont_V2", "cont_V3", "cont_face1", "cont_face2", "cont_face3", "cont_face4"}, {}),
  S(399, 399, "analysis_ref", "0", "", "", FALSE, {"modal_acst"}, {"<api>"}, {}),
  S(400, 439, "block", "", "", "", FALSE, {"acceleration", "acoustic_region", "analysis_settings", "free_surface", "fsi_object", "structural_region"}, {"<api>", "acst_bodies", "free_faces", "fsi_faces", "modal_acst", "struct_bodies"}, {}),
  S(440, 440, "set_load", "", "acceleration.YComponent.Output", "[Quantity('9.81 [m sec^-1 sec^-1]')]", FALSE, {}, {"<api>", "acceleration"}, {}),
  S(445, 455, "block", "", "", "", FALSE, {"fixed_support", "fv1", "fv2", "fv3", "fv4", "fvert"}, {"<api>", "modal_acst", "sel_manager"}, {}),
  S(457, 459, "export", "geometry.png", "", "", FALSE, {}, {"camera", "graphics", "output_path", "set_camera_and_display_image", "settings_720p"}, {"set_camera_and_display_image"}),
  S(466, 466, "analysis_ref", "0", "", "", FALSE, {"soln"}, {"model"}, {}),
  S(467, 496, "block", "", "", "", FALSE, {"acoustic_pressure_result", "force_reaction_1", "total_deformation_1", "total_deformation_10", "total_deformation_2", "total_deformation_3", "total_deformation_4", "total_deformation_5", "total_deformation_6", "total_deformation_7", "total_deformation_8", "total_deformation_9"}, {"fixed_support", "soln"}, {}),
  S(502, 502, "solve", "", "Model.Analyses[0].Solution", "", TRUE, {}, {"soln"}, {}),
  S(505, 505, "assert_status", "", "Model.Analyses[0].Solution", "", FALSE, {}, {"<api>", "soln"}, {}),
  S(513, 526, "block", "", "", "", FALSE, {"message", "messages"}, {"app", "total_deformation_1"}, {}),
  S(527, 529, "export", "total_deformation.png", "", "", FALSE, {}, {"camera", "graphics", "output_path", "set_camera_and_display_image", "settings_720p"}, {"set_camera_and_display_image"}),
  S(534, 534, "block", "", "", "", FALSE, {}, {"acoustic_pressure_result", "app"}, {}),
  S(535, 537, "export", "acoustic_pressure.png", "", "", FALSE, {}, {"camera", "graphics", "output_path", "set_camera_and_display_image", "settings_720p"}, {"set_camera_and_display_image"}),
  S(543, 587, "block", "", "", "", FALSE, {"animation_export_format", "deformation_gif", "force_reaction_1_x", "force_reaction_1_z", "frequency_1", "frequency_10", "frequency_2", "frequency_3", "frequency_4", "frequency_5", "frequency_6", "frequency_7", "frequency_8", "frequency_9", "pressure_result_max", "pressure_result_min", "settings_720p"}, {"<api>", "acoustic_pressure_result", "force_reaction_1", "output_path", "total_deformation_1", "total_deformation_10", "total_deformation_2", "total_deformation_3", "total_deformation_4", "total_deformation_5", "total_deformation_6", "total_deformation_7", "total_deformation_8", "total_deformation_9"}, {}),
  S(588, 590, "export", "", "", "", FALSE, {}, {"animation_export_format", "deformation_gif", "settings_720p", "total_deformation_10"}, {}),
  S(593, 611, "def", "update_animation", "", "", FALSE, {"update_animation"}, {"mpimg"}, {}),
  S(615, 620, "block", "", "", "", FALSE, {"axes", "figure", "gif", "image"}, {"Image", "deformation_gif", "plt"}, {}),
  S(624, 631, "call", "", "", "", FALSE, {}, {"FuncAnimation", "figure", "gif", "update_animation"}, {"update_animation"}),
  S(634, 647, "block", "", "", "", FALSE, {"mechdat_file"}, {"app", "output_path", "plt"}, {}),
  S(648, 648, "save", "str(mechdat_file)", "", "", FALSE, {}, {"app", "mechdat_file"}, {}),
  S(649, 649, "new", "", "", "", FALSE, {}, {"app"}, {}),
  S(654, 654, "delete_downloads", "", "", "", FALSE, {}, {"delete_downloads"}, {})
  >>

\* src/examples/01_basic/steady_state_thermal_analysis.py: the helper functions the script defines, each with the
\* global names its body reads (free) and the helpers it references (calls).
basic01_steady_state_thermal_analysis_defs ==
  [set_camera_and_display_image |-> [free |-> {"display_image", "image_export_format"}, calls |-> {"display_image"}],
   display_image |-> [free |-> {"mpimg", "plt"}, calls |-> {}],
   update_animation |-> [free |-> {"gif", "image"}, calls |-> {}],
   write_file_contents_to_console |-> [free |-> {}, calls |-> {}]]

\* src/examples/01_basic/steady_state_thermal_analysis.py: the script's top-level statements in execution order.
basic01_steady_state_thermal_analysis ==
  <<
  S(18, 27, "import", "", "", "", FALSE, {"App", "FuncAnimation", "Image", "Path", "TYPE_CHECKING", "delete_downloads", "download_file", "mpimg", "plt"}, {}, {}),
  S(35, 35, "App", "globals", "", "", FALSE, {"app"}, {"App"}, {}),
  S(36, 43, "block", "", "", "", FALSE, {"output_path"}, {"Path", "app"}, {}),
  S(46, 76, "def", "set_camera_and_display_image", "", "", FALSE, {"set_camera_and_display_image"}, {"Path"}, {}),
  S(79, 112, "def", "display_image", "", "", FALSE, {"display_image"}, {}, {}),
  S(119, 130, "block", "", "", "", FALSE, {"camera", "graphics", "image_export_format", "settings_720p"}, {"<api>", "app"}, {}),
  S(138, 138, "download", "pymechanical/embedding/LONGBAR.x_t", "", "geometry_path", FALSE, {"geometry_path"}, {"download_file"}, {}),
  S(143, 151, "block", "", "", "", FALSE, {"geometry_import", "geometry_import_format", "geometry_import_group", "geometry_import_preferences", "model"}, {"<api>", "app"}, {}),
  S(152, 154, "read_fixture", "pymechanical/embedding/LONGBAR.x_t", "", "", FALSE, {}, {"geometry_import", "geometry_import_format", "geometry_import_preferences", "geometry_path"}, {}),
  S(156, 156, "block", "", "", "", FALSE, {}, {"app"}, {}),
  S(163, 163, "add_analysis", "SteadyStateThermal", "", "", FALSE, {}, {"model"}, {}),
  S(164, 164, "block", "", "", "", FALSE, {}, {"<api>", "app"}, {}),
  S(165, 165, "analysis_ref", "0", "", "", FALSE, {"stat_therm"}, {"model"}, {}),
  S(166, 180, "block", "", "", "", FALSE, {"coordinate_systems", "face1", "lcs1", "lcs2"}, {"<api>", "model"}, {}),
  S(181, 181, "set_name", "Face1", "face1", "", FALSE, {}, {"face1"}, {}),
  S(182, 195, "block", "", "", "", FALSE, {"crt1", "face2", "gen_crt1"}, {"<api>", "face1", "model"}, {}),
  S(196, 196, "set_name", "Face2", "face2", "", FALSE, {}, {"face2"}, {}),
  S(197, 210, "block", "", "", "", FALSE, {"crt1", "face3", "gen_crt2"}, {"<api>", "face2", "model"}, {}),
  S(211, 211, "set_name", "Face3", "face3", "", FALSE, {}, {"face3"}, {}),
  S(212, 257, "block", "", "", "", FALSE, {"body1", "crt1", "crt2", "crt3", "crt4", "crt5", "gen_crt3"}, {"<api>", "face3", "model"}, {}),
  S(258, 258, "set_name", "Body1", "body1", "", FALSE, {}, {"body1"}, {}),
  S(259, 290, "block", "", "", "", FALSE, {"Path", "construction_geometry", "surface", "temp"}, {"<api>", "body1", "face1", "lcs2", "model", "stat_therm"}, {}),
  S(291, 291, "set_load", "", "temp.Magnitude.Output", "[Quantity('22[C]'), Quantity('30[C]')]", FALSE, {}, {"<api>", "temp"}, {}),
  S(293, 294, "block", "", "", "", FALSE, {"temp2"}, {"face2", "stat_therm"}, {}),
  S(295, 295, "set_load", "", "temp2.Magnitude.Output", "[Quantity('22[C]'), Quantity('60[C]')]", FALSE, {}, {"<api>", "temp2"}, {}),
  S(297, 301, "set_load", "", "temp.Magnitude.Inputs[0]", "[ Quantity('0 [sec]'), Quantity('1 [sec]'), Quantity('2 [sec]'), ]", FALSE, {}, {"<api>", "temp"}, {}),
  S(302, 306, "set_load", "", "temp.Magnitude.Output", "[ Quantity('22[C]'), Quantity('30[C]'), Quantity('40[C]'), ]", FALSE, {}, {"<api>", "temp"}, {}),
  S(308, 312, "set_load", "", "temp2.Magnitude.Inputs[0]", "[ Quantity('0 [sec]'), Quantity('1 [sec]'), Quantity('2 [sec]'), ]", FALSE, {}, {"<api>", "temp2"}, {}),
  S(313, 317, "set_load", "", "temp2.Magnitude.Output", "[ Quantity('22[C]'), Quantity('50[C]'), Quantity('80[C]'), ]", FALSE, {}, {"<api>", "temp2"}, {}),
  S(322, 323, "block", "", "", "", FALSE, {"radiation"}, {"face3", "stat_therm"}, {}),
  S(324, 328, "set_load", "", "radiation.AmbientTemperature.Inputs[0]", "[ Quantity('0 [sec]'), Quantity('1 [sec]'), Quantity('2 [sec]'), ]", FALSE, {}, {"<api>", "radiation"}, {}),
  S(329, 333, "set_load", "", "radiation.AmbientTemperature.Output", "[ Quantity('22[C]'), Quantity('30[C]'), Quantity('40[C]'), ]", FALSE, {}, {"<api>", "radiation"}, {}),
  S(334, 339, "block", "", "", "", FALSE, {"analysis_settings"}, {"<api>", "radiation", "stat_therm"}, {}),
  S(340, 340, "number_of_steps", "2", "analysis_settings", "", FALSE, {}, {"analysis_settings"}, {}),
  S(341, 343, "block", "", "", "", FALSE, {}, {"analysis_settings", "stat_therm"}, {}),
  S(344, 346, "export", "bc_steady_state.png", "", "", FALSE, {}, {"camera", "graphics", "output_path", "set_camera_and_display_image", "settings_720p"}, {"set_camera_and_display_image"}),
  S(353, 353, "analysis_ref", "0", "", "", FALSE, {"stat_therm_soln"}, {"model"}, {}),
  S(354, 412, "block", "", "", "", FALSE, {"directional_heat_flux", "hflux_probe", "radiation_probe", "reaction_probe", "temp_probe", "temp_rst", "temp_rst2", "temp_rst3", "temp_rst4", "thermal_error", "total_heat_flux"}, {"<api>", "Path", "analysis_settings", "body1", "face1", "lcs2", "radiation", "stat_therm_soln", "surface"}, {}),
  S(419, 419, "solve", "", "Model.Analyses[0].Solution", "", TRUE, {}, {"stat_therm_soln"}, {}),
  S(422, 424, "assert_status", "", "Model.Analyses[0].Solution", "", FALSE, {}, {"<api>", "stat_therm_soln"}, {}),
  S(431, 442, "block", "", "", "", FALSE, {"message", "messages"}, {"app", "temp_rst"}, {}),
  S(443, 445, "export", "total_body_temp.png", "", "", FALSE, {}, {"camera", "graphics", "output_path", "set_camera_and_display_image", "settings_720p"}, {"set_camera_and_display_image"}),
  S(450, 450, "block", "", "", "", FALSE, {}, {"app", "temp_rst2"}, {}),
  S(451, 453, "export", "part_temp_body.png", "", "", FALSE, {}, {"camera", "graphics", "output_path", "set_camera_and_display_image", "settings_720p"}, {"set_camera_and_display_image"}),
  S(458, 458, "block", "", "", "", FALSE, {}, {"app", "temp_rst3"}, {}),
  S(459, 461, "export", "path_temp_distribution.png", "", "", FALSE, {}, {"camera", "graphics", "output_path", "set_camera_and_display_image", "settings_720p"}, {"set_camera_and_display_image"}),
  S(466, 466, "block", "", "", "", FALSE, {}, {"app", "temp_rst4"}, {}),
  S(467, 469, "export", "bottom_surface_temp.png", "", "", FALSE, {}, {"camera", "graphics", "output_path", "set_camera_and_display_image", "settings_720p"}, {"set_camera_and_display_image"}),
  S(476, 484, "block", "", "", "", FALSE, {"animation_export_format", "directional_heat_flux_gif", "settings_720p"}, {"<api>", "app", "directional_heat_flux", "output_path"}, {}),
  S(485, 487, "export", "", "", "", FALSE, {}, {"animation_export_format", "directional_heat_flux", "directional_heat_flux_gif", "settings_720p"}, {}),
  S(490, 508, "def", "update_animation", "", "", FALSE, {"update_animation"}, {"mpimg"}, {}),
  S(512, 517, "block", "", "", "", FALSE, {"axes", "figure", "gif", "image"}, {"Image", "directional_heat_flux_gif", "plt"}, {}),
  S(521, 528, "call", "", "", "", FALSE, {}, {"FuncAnimation", "figure", "gif", "update_animation"}, {"update_animation"}),
  S(531, 531, "block", "", "", "", FALSE, {}, {"plt"}, {}),
  S(538, 542, "def", "write_file_contents_to_console", "", "", FALSE, {"write_file_contents_to_console"}, {}, {}),
  S(545, 546, "block", "", "", "", FALSE, {"solve_out_path", "solve_path"}, {"stat_therm"}, {}),
  S(547, 548, "show_solve_out", "solve.out", "", "", FALSE, {}, {"solve_out_path", "write_file_contents_to_console"}, {"write_file_contents_to_console"}),
  S(554, 561, "block", "", "", "", FALSE, {"mechdat_path"}, {"app", "output_path"}, {}),
  S(562, 562, "save", "str(mechdat_path)", "", "", FALSE, {}, {"app", "mechdat_path"}, {}),
  S(563, 563, "new", "", "", "", FALSE, {}, {"app"}, {}),
  S(568, 568, "delete_downloads", "", "", "", FALSE, {}, {"delete_downloads"}, {})
  >>

\* src/examples/01_basic/topology_optimization_cantilever_beam.py: the helper functions the script defines, each with the
\* global names its body reads (free) and the helpers it references (calls).
basic01_topology_optimization_cantilever_beam_defs ==
  [set_camera_and_display_image |-> [free |-> {"display_image", "image_export_format"}, calls |-> {"display_image"}],
   display_image |-> [free |-> {"mpimg", "plt"}, calls |-> {}],
   update_animation |-> [free |-> {"gif", "image"}, calls |-> {}]]

\* src/examples/01_basic/topology_optimization_cantilever_beam.py: the script's top-level statements in execution order.
basic01_topology_optimization_cantilever_beam ==
  <<
  S(15, 23, "import", "", "", "", FALSE, {"App", "FuncAnimation", "Image", "Path", "TYPE_CHECKING", "delete_downloads", "download_file", "mpimg", "plt"}, {}, {}),
  S(31, 31, "App", "globals", "", "", FALSE, {"app"}, {"App"}, {}),
  S(32, 40, "block", "", "", "", FALSE, {"output_path"}, {"Path", "app"}, {}),
  S(43, 73, "def", "set_camera_and_display_image", "", "", FALSE, {"set_camera_and_display_image"}, {"Path"}, {}),
  S(76, 109, "def", "display_image", "", "", FALSE, {"display_image"}, {}, {}),
  S(115, 127, "block", "", "", "", FALSE, {"camera", "graphics", "image_export_format", "settings_720p"}, {"<api>", "app"}, {}),
  S(134, 136, "download", "pymechanical/embedding/cantilever.mechdat", "", "structural_mechdat_file", FALSE, {"structural_mechdat_file"}, {"download_file"}, {}),
  S(137, 137, "open", "pymechanical/embedding/cantilever.mechdat", "", "", FALSE, {}, {"app", "structural_mechdat_file"}, {}),
  S(138, 138, "analysis_ref", "0", "", "", FALSE, {"struct"}, {"model"}, {}),
  S(141, 141, "assert", "struct.ObjectState == ObjectState.Solved", "", "", FALSE, {}, {"<api>", "struct"}, {}),
  S(143, 143, "block", "", "", "", FALSE, {"struct_sln"}, {"struct"}, {}),
  S(144, 144, "solve", "", "model.Analyses[0].Solution", "", TRUE, {}, {"struct_sln"}, {}),
  S(146, 146, "assert_status", "", "model.Analyses[0].Solution", "", FALSE, {}, {"<api>", "struct_sln"}, {}),
  S(154, 154, "block", "", "", "", FALSE, {}, {"struct_sln"}, {}),
  S(155, 157, "export", "total_deformation.png", "", "", FALSE, {}, {"camera", "graphics", "output_path", "set_camera_and_display_image", "settings_720p"}, {"set_camera_and_display_image"}),
  S(162, 162, "block", "", "", "", FALSE, {}, {"struct_sln"}, {}),
  S(163, 165, "export", "equivalent_stress.png", "", "", FALSE, {}, {"camera", "graphics", "output_path", "set_camera_and_display_image", "settings_720p"}, {"set_camera_and_display_image"}),
  S(173, 173, "block", "", "", "", FALSE, {}, {"<api>", "app"}, {}),
  S(177, 177, "add_analysis", "TopologyOptimization", "", "topology_optimization", FALSE, {"topology_optimization"}, {"model"}, {}),
  S(178, 178, "transfer", "model.Analyses[0]", "model.AddTopologyOptimizationAnalysis()@177", "", FALSE, {}, {"struct", "topology_optimization"}, {}),
  S(180, 184, "block", "", "", "", FALSE, {"optimization_region"}, {"<api>"}, {}),
  S(187, 187, "assert", "topology_optimization.ObjectState == ObjectState.NotSolved", "", "", FALSE, {}, {"<api>", "topology_optimization"}, {}),
  S(193, 209, "block", "", "", "", FALSE, {"mass_constraint", "mem_size_manufacturing_constraint", "volume_constraint"}, {"<api>", "topology_optimization"}, {}),
  S(210, 212, "export", "boundary_conditions.png", "", "", FALSE, {}, {"camera", "graphics", "output_path", "set_camera_and_display_image", "settings_720p"}, {"set_camera_and_display_image"}),
  S(218, 218, "block", "", "", "", FALSE, {"top_opt_sln"}, {"topology_optimization"}, {}),
  S(219, 219, "solve", "TopologyOptimization", "model.AddTopologyOptimizationAnalysis()@177.Solution", "", TRUE, {}, {"top_opt_sln"}, {}),
  S(221, 221, "assert_status", "", "model.AddTopologyOptimizationAnalysis()@177.Solution", "", FALSE, {}, {"<api>", "top_opt_sln"}, {}),
  S(228, 247, "block", "", "", "", FALSE, {"message", "messages", "topology_density"}, {"app", "top_opt_sln", "topology_optimization"}, {}),
  S(248, 250, "export", "topo_opitimized_smooth.png", "", "", FALSE, {}, {"camera", "graphics", "output_path", "set_camera_and_display_image", "settings_720p"}, {"set_camera_and_display_image"}),
  S(255, 262, "block", "", "", "", FALSE, {"animation_export_format", "settings_720p", "topology_optimized_gif"}, {"<api>", "output_path"}, {}),
  S(263, 265, "export", "", "", "", FALSE, {}, {"animation_export_format", "settings_720p", "topology_density", "topology_optimized_gif"}, {}),
  S(268, 286, "def", "update_animation", "", "", FALSE, {"update_animation"}, {"mpimg"}, {}),
  S(290, 295, "block", "", "", "", FALSE, {"axes", "figure", "gif", "image"}, {"Image", "plt", "topology_optimized_gif"}, {}),
  S(299, 306, "call", "", "", "", FALSE, {}, {"FuncAnimation", "figure", "gif", "update_animation"}, {"update_animation"}),
  S(309, 338, "block", "", "", "", FALSE, {"mechdat_file"}, {"app", "output_path", "plt", "topology_density"}, {}),
  S(339, 339, "save", "str(mechdat_file)", "", "", FALSE, {}, {"app", "mechdat_file"}, {}),
  S(340, 340, "new", "", "", "", FALSE, {}, {"app"}, {}),
  S(345, 345, "delete_downloads", "", "", "", FALSE, {}, {"delete_downloads"}, {})
  >>

\* src/examples/01_basic/valve.py: the helper functions the script defines, each with the
\* global names its body reads (free) and the helpers it references (calls).
basic01_valve_defs ==
  [set_camera_and_display_image |-> [free |-> {"display_image", "image_export_format"}, calls |-> {"display_image"}],
   display_image |-> [free |-> {"mpimg", "plt"}, calls |-> {}],
   update_animation |-> [free |-> {"gif", "image"}, calls |-> {}],
   write_file_contents_to_console |-> [free |-> {}, calls |-> {}]]

\* src/examples/01_basic/valve.py: the script's top-level statements in execution order.
basic01_valve ==
  <<
  S(13, 20, "import", "", "", "", FALSE, {"App", "FuncAnimation", "Image", "Path", "delete_downloads", "download_file", "mpimg", "plt"}, {}, {}),
  S(25, 25, "App", "globals", "", "", FALSE, {"app"}, {"App"}, {}),
  S(26, 33, "block", "", "", "", FALSE, {"output_path"}, {"Path", "app"}, {}),
  S(36, 66, "def", "set_camera_and_display_image", "", "", FALSE, {"set_camera_and_display_image"}, {"<api>", "Path"}, {}),
  S(69, 102, "def", "display_image", "", "", FALSE, {"display_image"}, {}, {}),
  S(109, 119, "block", "", "", "", FALSE, {"camera", "graphics", "image_export_format", "settings_720p"}, {"<api>", "app"}, {}),
  S(127, 127, "download", "pymechanical/embedding/Valve.pmdb", "", "geometry_path", FALSE, {"geometry_path"}, {"download_file"}, {}),
  S(132, 139, "block", "", "", "", FALSE, {"geometry_import", "geometry_import_format", "geometry_import_preferences", "model"}, {"<api>", "app"}, {}),
  S(140, 142, "read_fixture", "pymechanical/embedding/Valve.pmdb", "", "", FALSE, {}, {"geometry_import", "geometry_import_format", "geometry_import_preferences", "geometry_path"}, {}),
  S(144, 168, "block", "", "", "", FALSE, {"material_assignment", "mesh", "sel"}, {"<api>", "app", "model"}, {}),
  S(169, 169, "export", "mesh.png", "", "", FALSE, {}, {"camera", "graphics", "output_path", "set_camera_and_display_image", "settings_720p"}, {"set_camera_and_display_image"}),
  S(175, 175, "add_analysis", "StaticStructural", "", "analysis", FALSE, {"analysis"}, {"model"}, {}),
  S(177, 186, "block", "", "", "", FALSE, {"fixed_support", "frictionless_support", "pressure"}, {"analysis", "app"}, {}),
  S(188, 188, "set_load", "", "pressure.Magnitude.Inputs[0]", "[Quantity('0 [s]'), Quantity('1 [s]')]", FALSE, {}, {"<api>", "pressure"}, {}),
  S(189, 189, "set_load", "", "pressure.Magnitude.Output", "[Quantity('0 [Pa]'), Quantity('15 [MPa]')]", FALSE, {}, {"<api>", "pressure"}, {}),
  S(191, 191, "block", "", "", "", FALSE, {}, {"analysis"}, {}),
  S(192, 194, "export", "boundary_conditions.png", "", "", FALSE, {}, {"camera", "graphics", "output_path", "set_camera_and_display_image", "settings_720p"}, {"set_camera_and_display_image"}),
  S(199, 201, "block", "", "", "", FALSE, {"deformation", "solution", "stress"}, {"analysis"}, {}),
  S(206, 206, "solve", "", "Model.AddStaticStructuralAnalysis()@175.Solution", "", TRUE, {}, {"solution"}, {}),
  S(209, 209, "assert_status", "", "Model.AddStaticStructuralAnalysis()@175.Solution", "", FALSE, {}, {"<api>", "solution"}, {}),
  S(216, 230, "block", "", "", "", FALSE, {"message", "messages"}, {"app", "deformation"}, {}),
  S(231, 233, "export", "total_deformation_valve.png", "", "", FALSE, {}, {"camera", "graphics", "output_path", "set_camera_and_display_image", "settings_720p"}, {"set_camera_and_display_image"}),
  S(238, 238, "block", "", "", "", FALSE, {}, {"app", "stress"}, {}),
  S(239, 241, "export", "stress_valve.png", "", "", FALSE, {}, {"camera", "graphics", "output_path", "set_camera_and_display_image", "settings_720p"}, {"set_camera_and_display_image"}),
  S(246, 253, "block", "", "", "", FALSE, {"animation_export_format", "settings_720p", "valve_gif"}, {"<api>", "output_path"}, {}),
  S(254, 254, "export", "", "", "", FALSE, {}, {"animation_export_format", "settings_720p", "stress", "valve_gif"}, {}),
  S(257, 275, "def", "update_animation", "", "", FALSE, {"update_animation"}, {"mpimg"}, {}),
  S(279, 284, "block", "", "", "", FALSE, {"axes", "figure", "gif", "image"}, {"Image", "plt", "valve_gif"}, {}),
  S(288, 295, "call", "", "", "", FALSE, {}, {"FuncAnimation", "figure", "gif", "update_animation"}, {"update_animation"}),
  S(298, 298, "block", "", "", "", FALSE, {}, {"plt"}, {}),
  S(305, 309, "def", "write_file_contents_to_console", "", "", FALSE, {"write_file_contents_to_console"}, {}, {}),
  S(312, 313, "block", "", "", "", FALSE, {"solve_out_path", "solve_path"}, {"analysis"}, {}),
  S(314, 315, "show_solve_out", "solve.out", "", "", FALSE, {}, {"solve_out_path", "write_file_contents_to_console"}, {"write_file_contents_to_console"}),
  S(321, 328, "block", "", "", "", FALSE, {"mechdat_file"}, {"app", "output_path"}, {}),
  S(329, 329, "save", "str(mechdat_file)", "", "", FALSE, {}, {"app", "mechdat_file"}, {}),
  S(330, 330, "new", "", "", "", FALSE, {}, {"app"}, {}),
  S(335, 335, "delete_downloads", "", "", "", FALSE, {}, {"delete_downloads"}, {})
  >>

\* src/examples/02_technology_showcase/Rotor_Blade_Inverse_solve.py: the helper functions the script defines, each with the
\* global names its body reads (free) and the helpers it references (calls).
showcase02_Rotor_Blade_Inverse_solve_defs ==
  [set_camera_and_display_image |-> [free |-> {"display_image", "image_export_format"}, calls |-> {"display_image"}],
   display_image |-> [free |-> {"mpimg", "plt"}, calls |-> {}]]

\* src/examples/02_technology_showcase/Rotor_Blade_Inverse_solve.py: the script's top-level statements in execution order.
showcase02_Rotor_Blade_Inverse_solve ==
  <<
  S(50, 57, "import", "", "", "", FALSE, {"App", "Path", "TYPE_CHECKING", "delete_downloads", "download_file", "mpimg", "plt"}, {}, {}),
  S(65, 65, "App", "globals", "", "", FALSE, {"app"}, {"App"}, {}),
  S(66, 73, "block", "", "", "", FALSE, {"output_path"}, {"Path", "app"}, {}),
  S(76, 106, "def", "set_camera_and_display_image", "", "", FALSE, {"set_camera_and_display_image"}, {"Path"}, {}),
  S(109, 142, "def", "display_image", "", "", FALSE, {"display_image"}, {}, {}),
  S(150, 152, "download", "pymechanical/embedding/example_10_td_055_Rotor_Blade_Geom.pmdb", "", "geometry_path", FALSE, {"geometry_path"}, {"download_file"}, {}),
  S(157, 159, "download", "pymechanical/embedding/example_10_td_055_Rotor_Blade_Mat_File.xml", "", "mat_path", FALSE, {"mat_path"}, {"download_file"}, {}),
  S(164, 166, "download", "pymechanical/embedding/example_10_CFX_ExportResults_FT_10P_EO2.csv", "", "cfx_data_path", FALSE, {"cfx_data_path"}, {"download_file"}, {}),
  S(172, 174, "download", "pymechanical/embedding/example_10_Temperature_Data.txt", "", "temp_data_path", FALSE, {"temp_data_path"}, {"download_file"}, {}),
  S(180, 214, "block", "", "", "", FALSE, {"camera", "geometry_import", "geometry_import_format", "geometry_import_group", "geometry_import_preferences", "graphics", "image_export_format", "model", "settings_720p"}, {"<api>", "app"}, {}),
  S(215, 217, "read_fixture", "pymechanical/embedding/example_10_td_055_Rotor_Blade_Geom.pmdb", "", "", FALSE, {}, {"geometry_import", "geometry_import_format", "geometry_import_preferences", "geometry_path"}, {}),
  S(219, 226, "block", "", "", "", FALSE, {"materials"}, {"app", "model"}, {}),
  S(227, 227, "read_fixture", "pymechanical/embedding/example_10_td_055_Rotor_Blade_Mat_File.xml", "", "", FALSE, {}, {"mat_path", "materials"}, {}),
  S(229, 229, "lookup", "Component2/Rotor11", "0", "part1", FALSE, {"part1"}, {"app"}, {}),
  S(230, 230, "lookup", "Component3", "0", "part2", FALSE, {"part2"}, {"app"}, {}),
  S(231, 250, "block", "", "", "", FALSE, {"coordinate_systems", "geometry", "materials", "mesh", "named_selections", "part2_blade1", "part2_blade2", "part2_blade3"}, {"<api>", "app", "model", "part1", "part2"}, {}),
  S(257, 257, "lookup", "Blade", "0", "blade_ns", FALSE, {"blade_ns"}, {"app"}, {}),
  S(258, 258, "lookup", "Blade_Surf", "0", "blade_surface_ns", FALSE, {"blade_surface_ns"}, {"app"}, {}),
  S(259, 259, "lookup", "Fix_Support", "0", "fix_support_ns", FALSE, {"fix_support_ns"}, {"app"}, {}),
  S(260, 260, "lookup", "Blade_Hub", "0", "blade_hub_ns", FALSE, {"blade_hub_ns"}, {"app"}, {}),
  S(261, 261, "lookup", "Hub_Contact", "0", "hub_contact_ns", FALSE, {"hub_contact_ns"}, {"app"}, {}),
  S(262, 262, "lookup", "Blade_Target", "0", "blade_target_ns", FALSE, {"blade_target_ns"}, {"app"}, {}),
  S(263, 263, "lookup", "Hub_Low", "0", "hub_low_ns", FALSE, {"hub_low_ns"}, {"app"}, {}),
  S(264, 264, "lookup", "Hub_High", "0", "hub_high_ns", FALSE, {"hub_high_ns"}, {"app"}, {}),
  S(265, 265, "lookup", "Blade1", "0", "blade1_ns", FALSE, {"blade1_ns"}, {"app"}, {}),
  S(266, 266, "lookup", "Blade1_Source", "0", "blade1_source_ns", FALSE, {"blade1_source_ns"}, {"app"}, {}),
  S(267, 267, "lookup", "Blade1_Target", "0", "blade1_target_ns", FALSE, {"blade1_target_ns"}, {"app"}, {}),
  S(268, 268, "lookup", "Blade2", "0", "blade2_ns", FALSE, {"blade2_ns"}, {"app"}, {}),
  S(269, 269, "lookup", "Blade2_Source", "0", "blade2_source_ns", FALSE, {"blade2_source_ns"}, {"app"}, {}),
  S(270, 270, "lookup", "Blade2_Target", "0", "blade2_target_ns", FALSE, {"blade2_target_ns"}, {"app"}, {}),
  S(271, 271, "lookup", "Blade3", "0", "blade3_ns", FALSE, {"blade3_ns"}, {"app"}, {}),
  S(272, 272, "lookup", "Blade3_Source", "0", "blade3_source_ns", FALSE, {"blade3_source_ns"}, {"app"}, {}),
  S(273, 273, "lookup", "Blade3_Target", "0", "blade3_target_ns", FALSE, {"blade3_target_ns"}, {"app"}, {}),
  S(280, 364, "block", "", "", "", FALSE, {"automatic_method_Blade1", "automatic_method_Blade2", "automatic_method_Blade3", "automatic_method_Hub", "connections", "contact_region1", "coord_system", "coordinate_systems", "cyc_coordinate_system", "match_control_Hub", "mesh", "selection", "sizing_Blade"}, {"<api>", "model", "named_selections"}, {}),
  S(365, 367, "export", "blade_mesh.png", "", "", FALSE, {}, {"camera", "graphics", "output_path", "set_camera_and_display_image", "settings_720p"}, {"set_camera_and_display_image"}),
  S(374, 374, "add_analysis", "StaticStructural", "", "", FALSE, {}, {"model"}, {}),
  S(375, 375, "analysis_ref", "0", "", "", FALSE, {"static_structural_analysis"}, {"model"}, {}),
  S(376, 376, "analysis_ref", "0", "", "", FALSE, {"analysis_settings"}, {"app"}, {}),
  S(377, 396, "block", "", "", "", FALSE, {"archard_wear_model", "cmd1", "rotational_velocity"}, {"<api>", "analysis_settings", "static_structural_analysis"}, {}),
  S(397, 401, "set_load", "", "rotational_velocity.ZComponent.Inputs[0]", "[ Quantity('0 [s]'), Quantity('1 [s]'), Quantity('2 [s]'), ]", FALSE, {}, {"<api>", "rotational_velocity"}, {}),
  S(402, 406, "set_load", "", "rotational_velocity.ZComponent.Output", "[ Quantity('0 [rad/s]'), Quantity('1680 [rad/s]'), Quantity('1680 [rad/s]'), ]", FALSE, {}, {"<api>", "rotational_velocity"}, {}),
  S(410, 428, "block", "", "", "", FALSE, {"external_data_file_1", "external_data_files", "fixed_support", "imported_load_group", "selection"}, {"<api>", "named_selections", "static_structural_analysis"}, {}),
  S(429, 429, "read_fixture", "pymechanical/embedding/example_10_CFX_ExportResults_FT_10P_EO2.csv", "", "", FALSE, {}, {"cfx_data_path", "external_data_file_1"}, {}),
  S(430, 472, "block", "", "", "", FALSE, {"import_settings", "imported_pressure", "selection"}, {"<api>", "app", "external_data_file_1", "external_data_files", "imported_load_group", "named_selections"}, {}),
  S(473, 475, "export", "imported_pressure.png", "", "", FALSE, {}, {"camera", "graphics", "output_path", "set_camera_and_display_image", "settings_720p"}, {"set_camera_and_display_image"}),
  S(482, 490, "block", "", "", "", FALSE, {"external_data_file_1", "external_data_files", "imported_load_group"}, {"<api>", "static_structural_analysis"}, {}),
  S(491, 491, "read_fixture", "pymechanical/embedding/example_10_Temperature_Data.txt", "", "", FALSE, {}, {"external_data_file_1", "temp_data_path"}, {}),
  S(493, 535, "block", "", "", "", FALSE, {"import_settings", "imported_body_temperature", "selection"}, {"<api>", "app", "external_data_file_1", "external_data_files", "imported_load_group", "named_selections"}, {}),
  S(536, 538, "export", "imported_temperature.png", "", "", FALSE, {}, {"camera", "graphics", "output_path", "set_camera_and_display_image", "settings_720p"}, {"set_camera_and_display_image"}),
  S(545, 557, "block", "", "", "", FALSE, {"equivalent_stress1", "equivalent_total_strain1", "solution", "thermal_strain1", "total_deformation1"}, {"<api>", "static_structural_analysis"}, {}),
  S(565, 565, "solve", "", "Model.Analyses[0].Solution", "", TRUE, {}, {"solution"}, {}),
  S(566, 566, "read_status", "", "Model.Analyses[0].Solution", "soln_status", FALSE, {"soln_status"}, {"solution"}, {}),
  S(576, 579, "block", "", "", "", FALSE, {}, {"<api>", "app", "graphics", "total_deformation1"}, {}),
  S(580, 582, "export", "total_deformation.png", "", "", FALSE, {}, {"camera", "graphics", "output_path", "set_camera_and_display_image", "settings_720p"}, {"set_camera_and_display_image"}),
  S(587, 587, "block", "", "", "", FALSE, {}, {"app", "thermal_strain1"}, {}),
  S(588, 590, "export", "thermal_strain.png", "", "", FALSE, {}, {"camera", "graphics", "output_path", "set_camera_and_display_image", "settings_720p"}, {"set_camera_and_display_image"}),
  S(597, 597, "block", "", "", "", FALSE, {"mechdat_file"}, {"output_path"}, {}),
  S(598, 598, "save", "str(mechdat_file)", "", "", FALSE, {}, {"app", "mechdat_file"}, {}),
  S(599, 599, "new", "", "", "", FALSE, {}, {"app"}, {}),
  S(604, 604, "delete_downloads", "", "", "", FALSE, {}, {"delete_downloads"}, {})
  >>

\* src/examples/02_technology_showcase/conact_wear_simulation.py: the helper functions the script defines, each with the
\* global names its body reads (free) and the helpers it references (calls).
showcase02_conact_wear_simulation_defs ==
  [set_camera_and_display_image |-> [free |-> {"display_image", "image_export_format"}, calls |-> {"display_image"}],
   display_image |-> [free |-> {"mpimg", "plt"}, calls |-> {}],
   update_animation |-> [free |-> {"gif", "image"}, calls |-> {}]]

\* src/examples/02_technology_showcase/conact_wear_simulation.py: the script's top-level statements in execution order.
showcase02_conact_wear_simulation ==
  <<
  S(28, 37, "import", "", "", "", FALSE, {"App", "FuncAnimation", "Image", "Path", "TYPE_CHECKING", "delete_downloads", "download_file", "mpimg", "plt"}, {}, {}),
  S(45, 45, "App", "globals", "", "", FALSE, {"app"}, {"App"}, {}),
  S(46, 53, "block", "", "", "", FALSE, {"output_path"}, {"Path", "app"}, {}),
  S(56, 86, "def", "set_camera_and_display_image", "", "", FALSE, {"set_camera_and_display_image"}, {"Path"}, {}),
  S(89, 122, "def", "display_image", "", "", FALSE, {"display_image"}, {}, {}),
  S(129, 140, "block", "", "", "", FALSE, {"camera", "graphics", "image_export_format", "settings_720p"}, {"<api>", "app"}, {}),
  S(146, 146, "download", "pymechanical/00_basic/example_07_td43_wear.agdb", "", "geometry_path", FALSE, {"geometry_path"}, {"download_file"}, {}),
  S(147, 147, "download", "pymechanical/00_basic/example_07_Mat_Copper.xml", "", "mat1_path", FALSE, {"mat1_path"}, {"download_file"}, {}),
  S(148, 148, "download", "pymechanical/00_basic/example_07_Mat_Steel.xml", "", "mat2_path", FALSE, {"mat2_path"}, {"download_file"}, {}),
  S(154, 162, "block", "", "", "", FALSE, {"geometry_import", "geometry_import_format", "geometry_import_preferences", "model"}, {"<api>", "app"}, {}),
  S(163, 165, "read_fixture", "pymechanical/00_basic/example_07_td43_wear.agdb", "", "", FALSE, {}, {"geometry_import", "geometry_import_format", "geometry_import_preferences", "geometry_path"}, {}),
  S(167, 173, "block", "", "", "", FALSE, {"materials"}, {"app", "model"}, {}),
  S(174, 174, "read_fixture", "pymechanical/00_basic/example_07_Mat_Copper.xml", "", "", FALSE, {}, {"mat1_path", "materials"}, {}),
  S(175, 175, "read_fixture", "pymechanical/00_basic/example_07_Mat_Steel.xml", "", "", FALSE, {}, {"mat2_path", "materials"}, {}),
  S(177, 193, "block", "", "", "", FALSE, {"connections", "coordinate_systems", "geometry", "mesh", "named_selections"}, {"<api>", "app", "model"}, {}),
  S(198, 198, "add_analysis", "StaticStructural", "", "", FALSE, {}, {"model"}, {}),
  S(199, 199, "analysis_ref", "0", "", "", FALSE, {"static_structural_analysis"}, {"model"}, {}),
  S(200, 201, "block", "", "", "", FALSE, {"stat_struct_analysis_settings", "stat_struct_soln"}, {"static_structural_analysis"}, {}),
  S(206, 206, "lookup", "curve", "0", "curve_named_selection", FALSE, {"curve_named_selection"}, {"app"}, {}),
  S(207, 207, "lookup", "dia", "0", "dia_named_selection", FALSE, {"dia_named_selection"}, {"app"}, {}),
  S(208, 208, "lookup", "v1", "0", "ver_edge1", FALSE, {"ver_edge1"}, {"app"}, {}),
  S(209, 209, "lookup", "v2", "0", "ver_edge2", FALSE, {"ver_edge2"}, {"app"}, {}),
  S(210, 210, "lookup", "h1", "0", "hor_edge1", FALSE, {"hor_edge1"}, {"app"}, {}),
  S(211, 211, "lookup", "h2", "0", "hor_edge2", FALSE, {"hor_edge2"}, {"app"}, {}),
  S(212, 214, "lookup", "all_bodies", "0", "all_bodies_named_selection", FALSE, {"all_bodies_named_selection"}, {"app"}, {}),
  S(219, 259, "block", "", "", "", FALSE, {"archard_wear_model", "cmd1", "contact_region", "surface1", "surface2"}, {"<api>", "connections", "geometry", "named_selections"}, {}),
  S(260, 260, "wear_table", "archard_wear_model", "", "", FALSE, {}, {"archard_wear_model", "cmd1"}, {}),
  S(265, 306, "block", "", "", "", FALSE, {"edge_sizing1", "edge_sizing2", "edge_sizing3", "edge_sizing4", "edge_sizing5", "edge_sizing6", "remote_point"}, {"<api>", "curve_named_selection", "dia_named_selection", "hor_edge1", "hor_edge2", "mesh", "model", "ver_edge1", "ver_edge2"}, {}),
  S(307, 307, "export", "mesh.png", "", "", FALSE, {}, {"camera", "graphics", "output_path", "set_camera_and_display_image", "settings_720p"}, {"set_camera_and_display_image"}),
  S(313, 313, "number_of_steps", "2", "stat_struct_analysis_settings", "", FALSE, {}, {"stat_struct_analysis_settings"}, {}),
  S(314, 314, "select_step", "1", "stat_struct_analysis_settings", "", FALSE, {}, {"stat_struct_analysis_settings"}, {}),
  S(315, 319, "block", "", "", "", FALSE, {}, {"<api>", "stat_struct_analysis_settings"}, {}),
  S(320, 320, "select_step", "2", "stat_struct_analysis_settings", "", FALSE, {}, {"stat_struct_analysis_settings"}, {}),
  S(321, 321, "block", "", "", "", FALSE, {}, {"stat_struct_analysis_settings"}, {}),
  S(322, 322, "step_end_time", "4", "stat_struct_analysis_settings", "4 [s]", FALSE, {}, {"<api>", "stat_struct_analysis_settings"}, {}),
  S(323, 339, "block", "", "", "", FALSE, {"fixed_support", "remote_displacement"}, {"<api>", "hor_edge1", "remote_point", "stat_struct_analysis_settings", "static_structural_analysis"}, {}),
  S(340, 340, "set_load", "", "remote_displacement.XComponent.Output", "[Quantity('0[mm]')]", FALSE, {}, {"<api>", "remote_displacement"}, {}),
  S(341, 341, "set_load", "", "remote_displacement.RotationZ.Output", "[Quantity('0[deg]')]", FALSE, {}, {"<api>", "remote_displacement"}, {}),
  S(343, 345, "block", "", "", "", FALSE, {"remote_force"}, {"<api>", "remote_point", "static_structural_analysis"}, {}),
  S(346, 346, "set_load", "", "remote_force.YComponent.Output", "[Quantity('-150796320 [N]')]", FALSE, {}, {"<api>", "remote_force"}, {}),
  S(350, 357, "block", "", "", "", FALSE, {"cmd2", "nonlinear_adaptivity"}, {"<api>", "static_structural_analysis"}, {}),
  S(358, 358, "export", "mesh.png", "", "", FALSE, {}, {"camera", "graphics", "output_path", "set_camera_and_display_image", "settings_720p"}, {"set_camera_and_display_image"}),
  S(364, 364, "block", "", "", "", FALSE, {"total_deformation"}, {"stat_struct_soln"}, {}),
  S(366, 366, "add_result", "NormalStress", "", "normal_stress1", FALSE, {"normal_stress1"}, {"stat_struct_soln"}, {}),
  S(367, 367, "set_result", "NormalOrientation", "normal_stress1", "YAxis", FALSE, {}, {"<api>", "normal_stress1"}, {}),
  S(368, 368, "set_result", "DisplayTime", "normal_stress1", "1 [s]", FALSE, {}, {"<api>", "normal_stress1"}, {}),
  S(369, 369, "set_result", "DisplayOption", "normal_stress1", "Unaveraged", FALSE, {}, {"<api>", "normal_stress1"}, {}),
  S(371, 371, "add_result", "NormalStress", "", "normal_stress2", FALSE, {"normal_stress2"}, {"stat_struct_soln"}, {}),
  S(372, 372, "set_result", "NormalOrientation", "normal_stress2", "YAxis", FALSE, {}, {"<api>", "normal_stress2"}, {}),
  S(373, 373, "set_result", "DisplayTime", "normal_stress2", "4 [s]", FALSE, {}, {"<api>", "normal_stress2"}, {}),
  S(374, 374, "set_result", "DisplayOption", "normal_stress2", "Unaveraged", FALSE, {}, {"<api>", "normal_stress2"}, {}),
  S(376, 381, "block", "", "", "", FALSE, {"contact_tool", "selection1", "selection2"}, {"<api>", "all_bodies_named_selection", "app", "stat_struct_soln"}, {}),
  S(382, 382, "add_result", "Pressure", "", "contact_pressure1", FALSE, {"contact_pressure1"}, {"contact_tool"}, {}),
  S(383, 383, "set_result", "DisplayTime", "contact_pressure1", "1 [s]", FALSE, {}, {"<api>", "contact_pressure1"}, {}),
  S(385, 385, "add_result", "Pressure", "", "contact_pressure2", FALSE, {"contact_pressure2"}, {"contact_tool"}, {}),
  S(386, 386, "set_result", "DisplayTime", "contact_pressure2", "4 [s]", FALSE, {}, {"<api>", "contact_pressure2"}, {}),
  S(392, 392, "solve", "", "Model.Analyses[0].Solution", "", TRUE, {}, {"stat_struct_soln"}, {}),
  S(394, 396, "assert_status", "", "Model.Analyses[0].Solution", "", FALSE, {}, {"<api>", "stat_struct_soln"}, {}),
  S(404, 404, "block", "", "", "", FALSE, {}, {"app", "normal_stress1"}, {}),
  S(405, 407, "export", "normal_stress.png", "", "", FALSE, {}, {"camera", "graphics", "output_path", "set_camera_and_display_image", "settings_720p"}, {"set_camera_and_display_image"}),
  S(412, 419, "block", "", "", "", FALSE, {"animation_export_format", "settings_720p", "total_deformation_gif"}, {"<api>", "output_path"}, {}),
  S(420, 422, "export", "", "", "", FALSE, {}, {"animation_export_format", "settings_720p", "total_deformation", "total_deformation_gif"}, {}),
  S(425, 443, "def", "update_animation", "", "", FALSE, {"update_animation"}, {"mpimg"}, {}),
  S(447, 452, "block", "", "", "", FALSE, {"axes", "figure", "gif", "image"}, {"Image", "plt", "total_deformation_gif"}, {}),
  S(456, 463, "call", "", "", "", FALSE, {}, {"FuncAnimation", "figure", "gif", "update_animation"}, {"update_animation"}),
  S(466, 479, "block", "", "", "", FALSE, {"mechdat_file"}, {"app", "output_path", "plt"}, {}),
  S(480, 480, "save", "str(mechdat_file)", "", "", FALSE, {}, {"app", "mechdat_file"}, {}),
  S(481, 481, "new", "", "", "", FALSE, {}, {"app"}, {}),
  S(484, 484, "delete_downloads", "", "", "", FALSE, {}, {"delete_downloads"}, {})
  >>

\* src/examples/02_technology_showcase/contact_wear_simulation.py: the helper functions the script defines, each with the
\* global names its body reads (free) and the helpers it references (calls).
showcase02_contact_wear_simulation_defs ==
  [set_camera_and_display_image |-> [free |-> {"display_image", "image_export_format"}, calls |-> {"display_image"}],
   display_image |-> [free |-> {"mpimg", "plt"}, calls |-> {}],
   get_named_selection |-> [free |-> {"app"}, calls |-> {}],
   set_material_and_dimension |-> [free |-> {"geometry"}, calls |-> {}],
   add_edge_sizing_and_properties |-> [free |-> {}, calls |-> {}],
   set_time_steps |-> [free |-> {"<api>", "analysis_settings"}, calls |-> {}],
   set_properties_for_result |-> [free |-> {"<api>"}, calls |-> {}],
   add_contact_pressure |-> [free |-> {"<api>"}, calls |-> {}],
   update_animation |-> [free |-> {"gif", "image"}, calls |-> {}]]

\* src/examples/02_technology_showcase/contact_wear_simulation.py: the script's top-level statements in execution order.
showcase02_contact_wear_simulation ==
  <<
  S(273, 281, "import", "", "", "", FALSE, {"App", "FuncAnimation", "Image", "Path", "TYPE_CHECKING", "delete_downloads", "download_file", "mpimg", "plt"}, {}, {}),
  S(290, 290, "App", "globals", "", "", FALSE, {"app"}, {"App"}, {}),
  S(291, 298, "block", "", "", "", FALSE, {"output_path"}, {"Path", "app"}, {}),
  S(301, 331, "def", "set_camera_and_display_image", "", "", FALSE, {"set_camera_and_display_image"}, {"Path"}, {}),
  S(334, 367, "def", "display_image", "", "", FALSE, {"display_image"}, {}, {}),
  S(374, 390, "block", "", "", "", FALSE, {"camera", "graphics", "image_export_format", "settings_720p"}, {"<api>", "app"}, {}),
  S(397, 397, "download", "pymechanical/00_basic/example_07_td43_wear.agdb", "", "geometry_path", FALSE, {"geometry_path"}, {"download_file"}, {}),
  S(398, 398, "download", "pymechanical/00_basic/example_07_Mat_Copper.xml", "", "mat1_path", FALSE, {"mat1_path"}, {"download_file"}, {}),
  S(399, 399, "download", "pymechanical/00_basic/example_07_Mat_Steel.xml", "", "mat2_path", FALSE, {"mat2_path"}, {"download_file"}, {}),
  S(406, 417, "block", "", "", "", FALSE, {"geometry_import", "geometry_import_format", "geometry_import_preferences", "model"}, {"<api>", "app"}, {}),
  S(420, 422, "read_fixture", "pymechanical/00_basic/example_07_td43_wear.agdb", "", "", FALSE, {}, {"geometry_import", "geometry_import_format", "geometry_import_preferences", "geometry_path"}, {}),
  S(425, 432, "block", "", "", "", FALSE, {"materials"}, {"app", "model"}, {}),
  S(435, 435, "read_fixture", "pymechanical/00_basic/example_07_Mat_Copper.xml", "", "", FALSE, {}, {"mat1_path", "materials"}, {}),
  S(436, 436, "read_fixture", "pymechanical/00_basic/example_07_Mat_Steel.xml", "", "", FALSE, {}, {"mat2_path", "materials"}, {}),
  S(443, 452, "block", "", "", "", FALSE, {"connections", "coordinate_systems", "geometry", "mesh", "named_selections"}, {"<api>", "app", "model"}, {}),
  S(457, 457, "add_analysis", "StaticStructural", "", "", FALSE, {}, {"model"}, {}),
  S(458, 458, "analysis_ref", "0", "", "", FALSE, {"static_structural_analysis"}, {"model"}, {}),
  S(461, 464, "block", "", "", "", FALSE, {"analysis_settings", "stat_struct_soln"}, {"static_structural_analysis"}, {}),
  S(470, 472, "def", "get_named_selection", "", "", FALSE, {"get_named_selection"}, {}, {}),
  S(475, 475, "call", "", "", "", FALSE, {"curve_named_selection"}, {"get_named_selection"}, {"get_named_selection"}),
  S(476, 476, "call", "", "", "", FALSE, {"dia_named_selection"}, {"get_named_selection"}, {"get_named_selection"}),
  S(477, 477, "call", "", "", "", FALSE, {"ver_edge1"}, {"get_named_selection"}, {"get_named_selection"}),
  S(478, 478, "call", "", "", "", FALSE, {"ver_edge2"}, {"get_named_selection"}, {"get_named_selection"}),
  S(479, 479, "call", "", "", "", FALSE, {"hor_edge1"}, {"get_named_selection"}, {"get_named_selection"}),
  S(480, 480, "call", "", "", "", FALSE, {"hor_edge2"}, {"get_named_selection"}, {"get_named_selection"}),
  S(481, 481, "call", "", "", "", FALSE, {"all_bodies_named_selection"}, {"get_named_selection"}, {"get_named_selection"}),
  S(487, 487, "block", "", "", "", FALSE, {}, {"<api>", "geometry"}, {}),
  S(490, 496, "def", "set_material_and_dimension", "", "", FALSE, {"set_material_and_dimension"}, {"<api>"}, {}),
  S(500, 500, "call", "", "", "", FALSE, {}, {"set_material_and_dimension"}, {"set_material_and_dimension"}),
  S(501, 501, "call", "", "", "", FALSE, {}, {"set_material_and_dimension"}, {"set_material_and_dimension"}),
  S(507, 535, "block", "", "", "", FALSE, {"archard_wear_model", "cmd1", "contact_region"}, {"<api>", "connections", "named_selections"}, {}),
  S(536, 536, "wear_table", "archard_wear_model", "", "", FALSE, {}, {"archard_wear_model", "cmd1"}, {}),
  S(542, 553, "block", "", "", "", FALSE, {"remote_point"}, {"<api>", "dia_named_selection", "mesh", "model"}, {}),
  S(559, 578, "def", "add_edge_sizing_and_properties", "", "", FALSE, {"add_edge_sizing_and_properties"}, {"<api>"}, {}),
  S(584, 584, "call", "", "", "", FALSE, {}, {"add_edge_sizing_and_properties", "hor_edge1", "mesh"}, {"add_edge_sizing_and_properties"}),
  S(585, 585, "call", "", "", "", FALSE, {}, {"add_edge_sizing_and_properties", "hor_edge2", "mesh"}, {"add_edge_sizing_and_properties"}),
  S(586, 586, "call", "", "", "", FALSE, {}, {"add_edge_sizing_and_properties", "mesh", "ver_edge1"}, {"add_edge_sizing_and_properties"}),
  S(587, 587, "call", "", "", "", FALSE, {}, {"add_edge_sizing_and_properties", "mesh", "ver_edge2"}, {"add_edge_sizing_and_properties"}),
  S(588, 588, "call", "", "", "", FALSE, {}, {"add_edge_sizing_and_properties", "dia_named_selection", "mesh"}, {"add_edge_sizing_and_properties"}),
  S(589, 589, "call", "", "", "", FALSE, {}, {"add_edge_sizing_and_properties", "curve_named_selection", "mesh"}, {"add_edge_sizing_and_properties"}),
  S(594, 594, "block", "", "", "", FALSE, {}, {"mesh"}, {}),
  S(595, 595, "export", "mesh.png", "", "", FALSE, {}, {"camera", "graphics", "output_path", "set_camera_and_display_image", "settings_720p"}, {"set_camera_and_display_image"}),
  S(605, 619, "def", "set_time_steps", "", "", FALSE, {"set_time_steps"}, {}, {}),
  S(625, 625, "number_of_steps", "2", "analysis_settings", "", FALSE, {}, {"analysis_settings"}, {}),
  S(626, 626, "select_step", "1", "analysis_settings", "", FALSE, {}, {"analysis_settings"}, {}),
  S(627, 628, "block", "", "", "", FALSE, {}, {"<api>", "analysis_settings"}, {}),
  S(629, 629, "call", "", "", "", FALSE, {}, {"set_time_steps"}, {"set_time_steps"}),
  S(630, 630, "select_step", "2", "analysis_settings", "", FALSE, {}, {"analysis_settings"}, {}),
  S(631, 631, "block", "", "", "", FALSE, {}, {"analysis_settings"}, {}),
  S(632, 632, "step_end_time", "4", "analysis_settings", "4 [s]", FALSE, {}, {"<api>", "analysis_settings"}, {}),
  S(633, 634, "block", "", "", "", FALSE, {}, {"<api>", "analysis_settings"}, {}),
  S(635, 635, "call", "", "", "", FALSE, {}, {"set_time_steps"}, {"set_time_steps"}),
  S(636, 650, "block", "", "", "", FALSE, {"fixed_support", "remote_displacement"}, {"analysis_settings", "hor_edge1", "remote_point", "static_structural_analysis"}, {}),
  S(652, 652, "set_load", "", "remote_displacement.XComponent.Output", "[Quantity('0[mm]')]", FALSE, {}, {"<api>", "remote_displacement"}, {}),
  S(653, 653, "set_load", "", "remote_displacement.RotationZ.Output", "[Quantity('0[deg]')]", FALSE, {}, {"<api>", "remote_displacement"}, {}),
  S(656, 660, "block", "", "", "", FALSE, {"remote_force"}, {"<api>", "remote_point", "static_structural_analysis"}, {}),
  S(661, 661, "set_load", "", "remote_force.YComponent.Output", "[Quantity('-150796320 [N]')]", FALSE, {}, {"<api>", "remote_force"}, {}),
  S(664, 674, "block", "", "", "", FALSE, {"cmd2", "nonlinear_adaptivity"}, {"<api>", "static_structural_analysis"}, {}),
  S(675, 675, "export", "mesh.png", "", "", FALSE, {}, {"camera", "graphics", "output_path", "set_camera_and_display_image", "settings_720p"}, {"set_camera_and_display_image"}),
  S(682, 691, "def", "set_properties_for_result", "", "", FALSE, {"set_properties_for_result"}, {"<api>"}, {}),
  S(695, 695, "block", "", "", "", FALSE, {"total_deformation"}, {"stat_struct_soln"}, {}),
  S(698, 698, "add_result", "NormalStress", "", "normal_stress1", FALSE, {"normal_stress1"}, {"stat_struct_soln"}, {}),
  S(699, 699, "configure_result", "", "normal_stress1", "1 [s]", FALSE, {}, {"normal_stress1", "set_properties_for_result"}, {"set_properties_for_result"}),
  S(700, 700, "add_result", "NormalStress", "", "normal_stress2", FALSE, {"normal_stress2"}, {"stat_struct_soln"}, {}),
  S(701, 701, "configure_result", "", "normal_stress1", "4 [s]", FALSE, {}, {"normal_stress1", "set_properties_for_result"}, {"set_properties_for_result"}),
  S(704, 712, "block", "", "", "", FALSE, {"contact_tool", "selection1", "selection2"}, {"<api>", "all_bodies_named_selection", "app", "stat_struct_soln"}, {}),
  S(718, 721, "def", "add_contact_pressure", "", "", FALSE, {"add_contact_pressure"}, {}, {}),
  S(725, 725, "add_contact_pressure", "Pressure", "contact_pressure@725", "0 [s]", FALSE, {}, {"add_contact_pressure", "contact_tool"}, {"add_contact_pressure"}),
  S(726, 726, "add_contact_pressure", "Pressure", "contact_pressure@726", "4 [s]", FALSE, {}, {"add_contact_pressure", "contact_tool"}, {"add_contact_pressure"}),
  S(732, 732, "solve", "", "Model.Analyses[0].Solution", "", TRUE, {}, {"stat_struct_soln"}, {}),
  S(734, 736, "assert_status", "", "Model.Analyses[0].Solution", "", FALSE, {}, {"<api>", "stat_struct_soln"}, {}),
  S(746, 746, "block", "", "", "", FALSE, {}, {"app", "normal_stress1"}, {}),
  S(747, 749, "export", "normal_stress.png", "", "", FALSE, {}, {"camera", "graphics", "output_path", "set_camera_and_display_image", "settings_720p"}, {"set_camera_and_display_image"}),
  S(755, 773, "def", "update_animation", "", "", FALSE, {"update_animation"}, {"mpimg"}, {}),
  S(780, 789, "block", "", "", "", FALSE, {"animation_export_format", "settings_720p", "total_deformation_gif"}, {"<api>", "output_path"}, {}),
  S(790, 792, "export", "", "", "", FALSE, {}, {"animation_export_format", "settings_720p", "total_deformation", "total_deformation_gif"}, {}),
  S(795, 800, "block", "", "", "", FALSE, {"axes", "figure", "gif", "image"}, {"Image", "plt", "total_deformation_gif"}, {}),
  S(804, 811, "call", "", "", "", FALSE, {}, {"FuncAnimation", "figure", "gif", "update_animation"}, {"update_animation"}),
  S(814, 827, "block", "", "", "", FALSE, {"mechdat_file"}, {"app", "output_path", "plt"}, {}),
  S(828, 828, "save", "str(mechdat_file)", "", "", FALSE, {}, {"app", "mechdat_file"}, {}),
  S(831, 831, "close", "", "", "", FALSE, {}, {"app"}, {}),
  S(834, 834, "delete_downloads", "", "", "", FALSE, {}, {"delete_downloads"}, {})
  >>

\* src/examples/02_technology_showcase/non_linear_analsis_rubber_boot_seal.py: the helper functions the script defines, each with the
\* global names its body reads (free) and the helpers it references (calls).
showcase02_non_linear_analsis_rubber_boot_seal_defs ==
  [set_camera_and_display_image |-> [free |-> {"display_image", "image_export_format"}, calls |-> {"display_image"}],
   display_image |-> [free |-> {"mpimg", "plt"}, calls |-> {}],
   update_animation |-> [free |-> {"gif", "image"}, calls |-> {}]]

\* src/examples/02_technology_showcase/non_linear_analsis_rubber_boot_seal.py: the script's top-level statements in execution order.
showcase02_non_linear_analsis_rubber_boot_seal ==
  <<
  S(21, 28, "import", "", "", "", FALSE, {"App", "FuncAnimation", "Image", "Path", "delete_downloads", "download_file", "mpimg", "plt"}, {}, {}),
  S(33, 33, "App", "globals", "", "", FALSE, {"app"}, {"App"}, {}),
  S(34, 41, "block", "", "", "", FALSE, {"output_path"}, {"Path", "app"}, {}),
  S(44, 74, "def", "set_camera_and_display_image", "", "", FALSE, {"set_camera_and_display_image"}, {"<api>", "Path"}, {}),
  S(77, 110, "def", "display_image", "", "", FALSE, {"display_image"}, {}, {}),
  S(117, 128, "block", "", "", "", FALSE, {"camera", "graphics", "image_export_format", "settings_720p"}, {"<api>", "app"}, {}),
  S(134, 136, "download", "pymechanical/00_basic/example_05_td26_Rubber_Boot_Seal.agdb", "", "geometry_path", FALSE, {"geometry_path"}, {"download_file"}, {}),
  S(137, 137, "download", "pymechanical/00_basic/example_05_Boot_Mat.xml", "", "mat_path", FALSE, {"mat_path"}, {"download_file"}, {}),
  S(144, 146, "block", "", "", "", FALSE, {"materials", "model"}, {"app"}, {}),
  S(147, 147, "read_fixture", "pymechanical/00_basic/example_05_Boot_Mat.xml", "", "", FALSE, {}, {"mat_path", "materials"}, {}),
  S(148, 159, "block", "", "", "", FALSE, {"geometry_import", "geometry_import_format", "geometry_import_preferences"}, {"<api>", "model"}, {}),
  S(160, 162, "read_fixture", "pymechanical/00_basic/example_05_td26_Rubber_Boot_Seal.agdb", "", "", FALSE, {}, {"geometry_import", "geometry_import_format", "geometry_import_preferences", "geometry_path"}, {}),
  S(164, 177, "block", "", "", "", FALSE, {"geometry"}, {"<api>", "app", "model"}, {}),
  S(178, 178, "lookup", "Part", "0", "part1", FALSE, {"part1"}, {"app"}, {}),
  S(179, 179, "lookup", "Solid", "1", "part2", FALSE, {"part2"}, {"app"}, {}),
  S(180, 181, "block", "", "", "", FALSE, {"coordinate_systems", "gcs"}, {"model"}, {}),
  S(186, 186, "add_analysis", "StaticStructural", "", "", FALSE, {}, {"model"}, {}),
  S(187, 187, "analysis_ref", "0", "", "", FALSE, {"static_structural_analysis"}, {"model"}, {}),
  S(188, 195, "block", "", "", "", FALSE, {"analysis_settings", "named_selections", "soln_info", "stat_struct_soln"}, {"app", "static_structural_analysis"}, {}),
  S(196, 202, "lookup", "Top_Face", "0", "top_face", FALSE, {"top_face"}, {"<api>", "named_selections"}, {}),
  S(203, 209, "lookup", "Bottom_Face", "0", "bottom_face", FALSE, {"bottom_face"}, {"<api>", "named_selections"}, {}),
  S(210, 216, "lookup", "Symm_Faces30", "0", "symm_faces30", FALSE, {"symm_faces30"}, {"<api>", "named_selections"}, {}),
  S(217, 223, "lookup", "Faces2", "0", "faces2", FALSE, {"faces2"}, {"<api>", "named_selections"}, {}),
  S(224, 230, "lookup", "Cyl_Faces2", "0", "cyl_faces2", FALSE, {"cyl_faces2"}, {"<api>", "named_selections"}, {}),
  S(231, 237, "lookup", "Rubber_Bodies30", "0", "rubber_bodies30", FALSE, {"rubber_bodies30"}, {"<api>", "named_selections"}, {}),
  S(238, 244, "lookup", "Inner_Faces30", "0", "inner_faces30", FALSE, {"inner_faces30"}, {"<api>", "named_selections"}, {}),
  S(245, 251, "lookup", "Outer_Faces30", "0", "outer_faces30", FALSE, {"outer_faces30"}, {"<api>", "named_selections"}, {}),
  S(252, 258, "lookup", "Shaft_Face", "0", "shaft_face", FALSE, {"shaft_face"}, {"<api>", "named_selections"}, {}),
  S(259, 265, "lookup", "Symm_Faces15", "0", "symm_faces15", FALSE, {"symm_faces15"}, {"<api>", "named_selections"}, {}),
  S(267, 336, "block", "", "", "", FALSE, {"connections", "contact_region1", "contact_region2", "contact_region3", "conts", "face_mesh", "lcs1", "mesh", "mesh_size"}, {"<api>", "coordinate_systems", "gcs", "inner_faces30", "model", "outer_faces30", "part1", "part2", "shaft_face", "symm_faces15"}, {}),
  S(337, 337, "export", "mesh.png", "", "", FALSE, {}, {"camera", "graphics", "output_path", "set_camera_and_display_image", "settings_720p"}, {"set_camera_and_display_image"}),
  S(344, 358, "block", "", "", "", FALSE, {"remote_point01", "remote_point02"}, {"<api>", "analysis_settings", "bottom_face", "model", "top_face"}, {}),
  S(360, 360, "number_of_steps", "2", "analysis_settings", "", FALSE, {}, {"analysis_settings"}, {}),
  S(361, 361, "select_step", "1", "analysis_settings", "", FALSE, {}, {"analysis_settings"}, {}),
  S(362, 368, "block", "", "", "", FALSE, {}, {"<api>", "analysis_settings"}, {}),
  S(370, 370, "select_step", "2", "analysis_settings", "", FALSE, {}, {"analysis_settings"}, {}),
  S(371, 377, "block", "", "", "", FALSE, {}, {"<api>", "analysis_settings"}, {}),
  S(379, 379, "select_step", "3", "analysis_settings", "", FALSE, {}, {"analysis_settings"}, {}),
  S(380, 395, "block", "", "", "", FALSE, {"remote_displacement"}, {"<api>", "analysis_settings", "remote_point01", "soln_info", "static_structural_analysis"}, {}),
  S(396, 401, "set_load", "", "remote_displacement.XComponent.Inputs[0]", "[ Quantity('0 [s]'), Quantity('1 [s]'), Quantity('2 [s]'), Quantity('3 [s]'), ]", FALSE, {}, {"<api>", "remote_displacement"}, {}),
  S(402, 407, "set_load", "", "remote_displacement.XComponent.Output", "[ Quantity('0 [mm]'), Quantity('0 [mm]'), Quantity('0 [mm]'), Quantity('0 [mm]'), ]", FALSE, {}, {"<api>", "remote_displacement"}, {}),
  S(408, 413, "set_load", "", "remote_displacement.YComponent.Inputs[0]", "[ Quantity('0 [s]'), Quantity('1 [s]'), Quantity('2 [s]'), Quantity('3 [s]'), ]", FALSE, {}, {"<api>", "remote_displacement"}, {}),
  S(414, 419, "set_load", "", "remote_displacement.YComponent.Output", "[ Quantity('0 [mm]'), Quantity('0 [mm]'), Quantity('-10 [mm]'), Quantity('-10 [mm]'), ]", FALSE, {}, {"<api>", "remote_displacement"}, {}),
  S(420, 425, "set_load", "", "remote_displacement.ZComponent.Inputs[0]", "[ Quantity('0 [s]'), Quantity('1 [s]'), Quantity('2 [s]'), Quantity('3 [s]'), ]", FALSE, {}, {"<api>", "remote_displacement"}, {}),
  S(426, 431, "set_load", "", "remote_displacement.ZComponent.Output", "[ Quantity('0 [mm]'), Quantity('0 [mm]'), Quantity('0 [mm]'), Quantity('0 [mm]'), ]", FALSE, {}, {"<api>", "remote_displacement"}, {}),
  S(433, 438, "set_load", "", "remote_displacement.RotationX.Inputs[0]", "[ Quantity('0 [s]'), Quantity('1 [s]'), Quantity('2 [s]'), Quantity('3 [s]'), ]", FALSE, {}, {"<api>", "remote_displacement"}, {}),
  S(439, 444, "set_load", "", "remote_displacement.RotationX.Output", "[ Quantity('0 [rad]'), Quantity('0 [rad]'), Quantity('0 [rad]'), Quantity('0 [rad]'), ]", FALSE, {}, {"<api>", "remote_displacement"}, {}),
  S(445, 450, "set_load", "", "remote_displacement.RotationY.Inputs[0]", "[ Quantity('0 [s]'), Quantity('1 [s]'), Quantity('2 [s]'), Quantity('3 [s]'), ]", FALSE, {}, {"<api>", "remote_displacement"}, {}),
  S(451, 456, "set_load", "", "remote_displacement.RotationY.Output", "[ Quantity('0 [rad]'), Quantity('0 [rad]'), Quantity('0 [rad]'), Quantity('0 [rad]'), ]", FALSE, {}, {"<api>", "remote_displacement"}, {}),
  S(457, 462, "set_load", "", "remote_displacement.RotationZ.Inputs[0]", "[ Quantity('0 [s]'), Quantity('1 [s]'), Quantity('2 [s]'), Quantity('3 [s]'), ]", FALSE, {}, {"<api>", "remote_displacement"}, {}),
  S(463, 468, "set_load", "", "remote_displacement.RotationZ.Output", "[ Quantity('0 [rad]'), Quantity('0 [rad]'), Quantity('0 [rad]'), Quantity('0.55 [rad]'), ]", FALSE, {}, {"<api>", "remote_displacement"}, {}),
  S(470, 471, "block", "", "", "", FALSE, {"frictionless_support1"}, {"static_structural_analysis", "symm_faces30"}, {}),
  S(472, 472, "set_name", "Symmetry_BC", "frictionless_support1", "", FALSE, {}, {"frictionless_support1"}, {}),
  S(473, 474, "block", "", "", "", FALSE, {"frictionless_support2"}, {"faces2", "static_structural_analysis"}, {}),
  S(475, 475, "set_name", "Boot_Bottom_BC", "frictionless_support2", "", FALSE, {}, {"frictionless_support2"}, {}),
  S(476, 477, "block", "", "", "", FALSE, {"frictionless_support3"}, {"cyl_faces2", "static_structural_analysis"}, {}),
  S(478, 478, "set_name", "Boot_Radial_BC", "frictionless_support3", "", FALSE, {}, {"frictionless_support3"}, {}),
  S(484, 488, "block", "", "", "", FALSE, {"equivalent_stress", "total_deformation"}, {"rubber_bodies30", "static_structural_analysis"}, {}),
  S(494, 494, "solve", "", "Model.Analyses[0].Solution", "", TRUE, {}, {"static_structural_analysis"}, {}),
  S(497, 499, "assert_status", "", "Model.Analyses[0].Solution", "", FALSE, {}, {"<api>", "stat_struct_soln"}, {}),
  S(508, 508, "block", "", "", "", FALSE, {}, {"app", "total_deformation"}, {}),
  S(509, 511, "export", "total_deformation.png", "", "", FALSE, {}, {"camera", "graphics", "output_path", "set_camera_and_display_image", "settings_720p"}, {"set_camera_and_display_image"}),
  S(516, 516, "block", "", "", "", FALSE, {}, {"app", "equivalent_stress"}, {}),
  S(517, 519, "export", "equivalent_stress.png", "", "", FALSE, {}, {"camera", "graphics", "output_path", "set_camera_and_display_image", "settings_720p"}, {"set_camera_and_display_image"}),
  S(524, 531, "block", "", "", "", FALSE, {"animation_export_format", "settings_720p", "total_deformation_gif"}, {"<api>", "output_path"}, {}),
  S(532, 534, "export", "", "", "", FALSE, {}, {"animation_export_format", "settings_720p", "total_deformation", "total_deformation_gif"}, {}),
  S(537, 555, "def", "update_animation", "", "", FALSE, {"update_animation"}, {"mpimg"}, {}),
  S(559, 564, "block", "", "", "", FALSE, {"axes", "figure", "gif", "image"}, {"Image", "plt", "total_deformation_gif"}, {}),
  S(568, 575, "call", "", "", "", FALSE, {}, {"FuncAnimation", "figure", "gif", "update_animation"}, {"update_animation"}),
  S(578, 585, "block", "", "", "", FALSE, {"mechdat_file"}, {"output_path", "plt"}, {}),
  S(586, 586, "save", "str(mechdat_file)", "", "", FALSE, {}, {"app", "mechdat_file"}, {}),
  S(587, 587, "new", "", "", "", FALSE, {}, {"app"}, {}),
  S(590, 590, "delete_downloads", "", "", "", FALSE, {}, {"delete_downloads"}, {})
  >>

\* src/examples/02_technology_showcase/prestressed_modal_cyclic_symmetry_analysis.py: the helper functions the script defines, each with the
\* global names its body reads (free) and the helpers it references (calls).
showcase02_prestressed_modal_cyclic_symmetry_analysis_defs ==
  [display_image |-> [free |-> {"cwd", "mpimg", "os", "plt"}, calls |-> {}]]

\* src/examples/02_technology_showcase/prestressed_modal_cyclic_symmetry_analysis.py: the script's top-level statements in execution order.
showcase02_prestressed_modal_cyclic_symmetry_analysis ==
  <<
  S(49, 54, "import", "", "", "", FALSE, {"App", "delete_downloads", "download_file", "os", "plt"}, {}, {}),
  S(61, 61, "App", "globals", "", "", FALSE, {"app"}, {"App"}, {}),
  S(62, 64, "block", "", "", "", FALSE, {"cwd"}, {"app", "os"}, {}),
  S(73, 79, "def", "display_image", "", "", FALSE, {"display_image"}, {}, {}),
  S(88, 110, "block", "", "", "", FALSE, {"geometry_import", "geometry_import_group", "image_export_format", "settings_720p"}, {"<api>"}, {}),
  S(111, 111, "download", "pymechanical/embedding/cyclic_sector_model.cdb", "", "geometry_path", FALSE, {"geometry_path"}, {"download_file"}, {}),
  S(112, 112, "read_fixture", "pymechanical/embedding/cyclic_sector_model.cdb", "", "", FALSE, {}, {"geometry_import", "geometry_path"}, {}),
  S(113, 114, "block", "", "", "", FALSE, {}, {"<api>", "geometry_import"}, {}),
  S(115, 115, "save_as", "after_cdb_import.mechdb", "", "", FALSE, {}, {"app", "cwd", "os"}, {}),
  S(117, 172, "block", "", "", "", FALSE, {"CONN_GRP", "CS_GRP", "GEOM", "LCS1", "MSH", "NS_GRP", "NS_LOW", "blade1", "blade2"}, {"<api>", "app"}, {}),
  S(173, 173, "set_name", "NS_LOW", "NS_LOW", "", FALSE, {}, {"NS_LOW"}, {}),
  S(174, 215, "block", "", "", "", FALSE, {"CRT1", "CRT2", "CRT3", "CRT4", "GEN_CRT", "NS_HIGH"}, {"<api>", "NS_GRP", "NS_LOW"}, {}),
  S(216, 216, "set_name", "NS_LOW", "NS_HIGH", "", FALSE, {}, {"NS_HIGH"}, {}),
  S(217, 258, "block", "", "", "", FALSE, {"CRT1", "CRT2", "CRT3", "CRT4", "GEN_CRT", "NS_PRES"}, {"<api>", "NS_GRP", "NS_HIGH"}, {}),
  S(259, 259, "set_name", "NS_PRES", "NS_PRES", "", FALSE, {}, {"NS_PRES"}, {}),
  S(260, 283, "block", "", "", "", FALSE, {"CRT1", "CRT2", "GEN_CRT", "NS_BODIES"}, {"<api>", "NS_GRP", "NS_PRES"}, {}),
  S(284, 284, "set_name", "NS_BODIES", "NS_BODIES", "", FALSE, {}, {"NS_BODIES"}, {}),
  S(285, 299, "block", "", "", "", FALSE, {"CRT1", "GEN_CRT", "NS_RESP_VERTEX"}, {"<api>", "NS_BODIES", "NS_GRP"}, {}),
  S(300, 300, "set_name", "NS_RESP_VERTEX", "NS_RESP_VERTEX", "", FALSE, {}, {"NS_RESP_VERTEX"}, {}),
  S(301, 347, "block", "", "", "", FALSE, {"CRT1", "GEN_CRT", "SYMM", "SYMMETRY_REGION", "modal"}, {"<api>", "LCS1", "NS_HIGH", "NS_LOW", "NS_RESP_VERTEX"}, {}),
  S(348, 348, "add_analysis", "Modal", "", "MODAL01", FALSE, {"MODAL01"}, {"modal"}, {}),
  S(351, 351, "analysis_ref", "0", "", "", FALSE, {"ANA_SETTING_MODAL01"}, {"<api>"}, {}),
  S(352, 352, "analysis_ref", "0", "", "", FALSE, {"SOLN_MODAL01"}, {"<api>"}, {}),
  S(354, 366, "block", "", "", "", FALSE, {"TOT_DEF_MODAL01"}, {"<api>", "ANA_SETTING_MODAL01", "SOLN_MODAL01"}, {}),
  S(374, 374, "save_as", "before_solve_prestressed.mechdb", "", "", FALSE, {}, {"app", "cwd", "os"}, {}),
  S(376, 376, "solve", "", "Model.Analyses[0].Solution", "", TRUE, {}, {"SOLN_MODAL01"}, {}),
  S(377, 377, "read_status", "", "Model.Analyses[0].Solution", "SOLN_MODAL01_SS", FALSE, {"SOLN_MODAL01_SS"}, {"SOLN_MODAL01"}, {}),
  S(379, 379, "save_as", "after_solve_prestressed.mechdb", "", "", FALSE, {}, {"app", "cwd", "os"}, {}),
  S(381, 381, "assert_status", "", "", "SOLN_MODAL01_SS", FALSE, {}, {"SOLN_MODAL01_SS"}, {}),
  S(384, 393, "block", "", "", "", FALSE, {"H0_FRQ1_MODAL01", "H0_FRQ2_MODAL01", "H1_FRQ1_MODAL01", "H1_FRQ2_MODAL01", "H2_FRQ1_MODAL01", "H2_FRQ2_MODAL01", "H3_FRQ1_MODAL01", "H3_FRQ2_MODAL01", "H4_FRQ1_MODAL01", "H4_FRQ2_MODAL01"}, {"TOT_DEF_MODAL01"}, {}),
  S(407, 407, "add_analysis", "StaticStructural", "", "STAT_STRUC01", FALSE, {"STAT_STRUC01"}, {"modal"}, {}),
  S(408, 408, "analysis_ref", "1", "", "", FALSE, {"ANA_SETTING_STAT_STRUC01"}, {"<api>"}, {}),
  S(409, 409, "analysis_ref", "1", "", "", FALSE, {"SOLN_STAT_STRUC01"}, {"<api>"}, {}),
  S(416, 417, "block", "", "", "", FALSE, {"PRES_STAT_STRUC01"}, {"NS_PRES", "STAT_STRUC01"}, {}),
  S(418, 418, "set_load", "", "PRES_STAT_STRUC01.Magnitude.Output", "[Quantity('20 [MPa]')]", FALSE, {}, {"<api>", "PRES_STAT_STRUC01"}, {}),
  S(420, 422, "block", "", "", "", FALSE, {"ROT_VEL_STAT_STRUC01"}, {"<api>", "LCS1", "STAT_STRUC01"}, {}),
  S(423, 423, "set_load", "", "ROT_VEL_STAT_STRUC01.ZComponent.Output", "[Quantity('3000 [rad sec^-1]')]", FALSE, {}, {"<api>", "ROT_VEL_STAT_STRUC01"}, {}),
  S(425, 426, "block", "", "", "", FALSE, {"THERM_COND_STRUC01"}, {"NS_BODIES", "STAT_STRUC01"}, {}),
  S(427, 427, "set_load", "", "THERM_COND_STRUC01.Magnitude.Output", "[Quantity('50 [C]')]", FALSE, {}, {"<api>", "THERM_COND_STRUC01"}, {}),
  S(436, 436, "add_analysis", "Modal", "", "MODAL02", FALSE, {"MODAL02"}, {"modal"}, {}),
  S(437, 437, "block", "", "", "", FALSE, {"Pre_Stress02"}, {"MODAL02"}, {}),
  S(438, 438, "prestress", "1", "", "MODAL02", FALSE, {}, {"<api>", "Pre_Stress02"}, {}),
  S(439, 439, "analysis_ref", "2", "", "", FALSE, {"ANA_SETTING_MODAL02"}, {"<api>"}, {}),
  S(440, 440, "analysis_ref", "2", "", "", FALSE, {"SOLN_MODAL02"}, {"<api>"}, {}),
  S(442, 451, "block", "", "", "", FALSE, {"TOT_DEF_MODAL02"}, {"<api>", "ANA_SETTING_MODAL02", "SOLN_MODAL02"}, {}),
  S(464, 464, "solve", "", "Model.Analyses[2].Solution", "", TRUE, {}, {"SOLN_MODAL02"}, {}),
  S(465, 465, "read_status", "", "Model.Analyses[2].Solution", "SOLN_MODAL02_SS", FALSE, {"SOLN_MODAL02_SS"}, {"SOLN_MODAL02"}, {}),
  S(467, 467, "assert_status", "", "", "SOLN_MODAL02_SS", FALSE, {}, {"SOLN_MODAL02_SS"}, {}),
  S(470, 479, "block", "", "", "", FALSE, {"H0_FRQ1_MODAL02", "H0_FRQ2_MODAL02", "H1_FRQ1_MODAL02", "H1_FRQ2_MODAL02", "H2_FRQ1_MODAL02", "H2_FRQ2_MODAL02", "H3_FRQ1_MODAL02", "H3_FRQ2_MODAL02", "H4_FRQ1_MODAL02", "H4_FRQ2_MODAL02"}, {"TOT_DEF_MODAL02"}, {}),
  S(487, 487, "add_analysis", "StaticStructural", "", "STAT_STRUC02", FALSE, {"STAT_STRUC02"}, {"modal"}, {}),
  S(488, 488, "analysis_ref", "3", "", "", FALSE, {"ANA_SETTING_STAT_STRUC02"}, {"<api>"}, {}),
  S(489, 489, "analysis_ref", "3", "", "", FALSE, {"SOLN_STAT_STRUC02"}, {"<api>"}, {}),
  S(497, 505, "block", "", "", "", FALSE, {"PRES_STAT_STRUC02"}, {"ANA_SETTING_STAT_STRUC02", "NS_PRES", "STAT_STRUC02"}, {}),
  S(506, 506, "set_load", "", "PRES_STAT_STRUC02.Magnitude.Output", "[Quantity('20 [MPa]')]", FALSE, {}, {"<api>", "PRES_STAT_STRUC02"}, {}),
  S(508, 510, "block", "", "", "", FALSE, {"ROT_VEL_STAT_STRUC02"}, {"<api>", "LCS1", "STAT_STRUC02"}, {}),
  S(511, 511, "set_load", "", "ROT_VEL_STAT_STRUC02.ZComponent.Output", "[Quantity('6000 [rad sec^-1]')]", FALSE, {}, {"<api>", "ROT_VEL_STAT_STRUC02"}, {}),
  S(513, 514, "block", "", "", "", FALSE, {"THERM_COND_STRUC02"}, {"NS_BODIES", "STAT_STRUC02"}, {}),
  S(515, 515, "set_load", "", "THERM_COND_STRUC02.Magnitude.Output", "[Quantity('50 [C]')]", FALSE, {}, {"<api>", "THERM_COND_STRUC02"}, {}),
  S(522, 522, "add_analysis", "Modal", "", "MODAL03", FALSE, {"MODAL03"}, {"modal"}, {}),
  S(523, 523, "block", "", "", "", FALSE, {"Pre_Stress03"}, {"MODAL03"}, {}),
  S(524, 524, "prestress", "3", "", "MODAL03", FALSE, {}, {"<api>", "Pre_Stress03"}, {}),
  S(525, 525, "analysis_ref", "4", "", "", FALSE, {"ANA_SETTING_MODAL03"}, {"<api>"}, {}),
  S(526, 526, "analysis_ref", "4", "", "", FALSE, {"SOLN_MODAL03"}, {"<api>"}, {}),
  S(528, 539, "block", "", "", "", FALSE, {"TOT_DEF_MODAL03"}, {"<api>", "ANA_SETTING_MODAL03", "SOLN_MODAL03"}, {}),
  S(549, 549, "solve", "", "Model.Analyses[4].Solution", "", TRUE, {}, {"SOLN_MODAL03"}, {}),
  S(550, 550, "read_status", "", "Model.Analyses[4].Solution", "SOLN_MODAL03_SS", FALSE, {"SOLN_MODAL03_SS"}, {"SOLN_MODAL03"}, {}),
  S(552, 552, "assert_status", "", "", "SOLN_MODAL03_SS", FALSE, {}, {"SOLN_MODAL03_SS"}, {}),
  S(555, 564, "block", "", "", "", FALSE, {"H0_FRQ1_MODAL03", "H0_FRQ2_MODAL03", "H1_FRQ1_MODAL03", "H1_FRQ2_MODAL03", "H2_FRQ1_MODAL03", "H2_FRQ2_MODAL03", "H3_FRQ1_MODAL03", "H3_FRQ2_MODAL03", "H4_FRQ1_MODAL03", "H4_FRQ2_MODAL03"}, {"TOT_DEF_MODAL03"}, {}),
  S(573, 573, "add_analysis", "HarmonicResponse", "", "HARM_RESP01", FALSE, {"HARM_RESP01"}, {"modal"}, {}),
  S(574, 574, "analysis_ref", "5", "", "", FALSE, {"ANA_SETTING_HARM_RESP01"}, {"<api>"}, {}),
  S(575, 575, "analysis_ref", "5", "", "", FALSE, {"SOLN_HARM_RESP01"}, {"<api>"}, {}),
  S(581, 609, "block", "", "", "", FALSE, {"PRES_HARM_RESP01"}, {"<api>", "ANA_SETTING_HARM_RESP01", "HARM_RESP01", "NS_PRES"}, {}),
  S(610, 610, "set_load", "", "PRES_HARM_RESP01.Magnitude.Output", "[Quantity('20 [MPa]')]", FALSE, {}, {"<api>", "PRES_HARM_RESP01"}, {}),
  S(621, 628, "block", "", "", "", FALSE, {"FRQ_RES_DEF_HARM_RESP01", "TOT_DEF4_1"}, {"<api>", "NS_RESP_VERTEX", "SOLN_HARM_RESP01"}, {}),
  S(629, 629, "set_name", "Total Deformation", "TOT_DEF4_1", "", FALSE, {}, {"TOT_DEF4_1"}, {}),
  S(630, 635, "block", "", "", "", FALSE, {"TOT_DEF4_2"}, {"<api>", "SOLN_HARM_RESP01", "TOT_DEF4_1"}, {}),
  S(636, 636, "set_name", "Total Deformation 2", "TOT_DEF4_2", "", FALSE, {}, {"TOT_DEF4_2"}, {}),
  S(637, 637, "block", "", "", "", FALSE, {}, {"TOT_DEF4_2"}, {}),
  S(644, 644, "solve", "", "Model.Analyses[5].Solution", "", TRUE, {}, {"SOLN_HARM_RESP01"}, {}),
  S(645, 645, "read_status", "", "Model.Analyses[5].Solution", "SOLN_HARM_RESP01_SS", FALSE, {"SOLN_HARM_RESP01_SS"}, {"SOLN_HARM_RESP01"}, {}),
  S(647, 647, "assert_status", "", "", "SOLN_HARM_RESP01_SS", FALSE, {}, {"SOLN_HARM_RESP01_SS"}, {}),
  S(655, 656, "block", "", "", "", FALSE, {}, {"<api>", "TOT_DEF4_1"}, {}),
  S(657, 661, "export", "deform_frequency_response.png", "", "", FALSE, {}, {"<api>", "cwd", "image_export_format", "os", "settings_720p"}, {}),
  S(662, 662, "call", "", "", "", FALSE, {}, {"display_image"}, {"display_image"}),
  S(666, 666, "close", "", "", "", FALSE, {}, {"app"}, {}),
  S(669, 669, "delete_downloads", "", "", "", FALSE, {}, {"delete_downloads"}, {})
  >>

\* src/examples/02_technology_showcase/shape_optimization_bracket_model.py: the helper functions the script defines, each with the
\* global names its body reads (free) and the helpers it references (calls).
showcase02_shape_optimization_bracket_model_defs ==
  [display_image |-> [free |-> {"cwd", "mpimg", "os", "plt"}, calls |-> {}]]

\* src/examples/02_technology_showcase/shape_optimization_bracket_model.py: the script's top-level statements in execution order.
showcase02_shape_optimization_bracket_model ==
  <<
  S(39, 44, "import", "", "", "", FALSE, {"App", "delete_downloads", "download_file", "mpimg", "os", "plt"}, {}, {}),
  S(49, 49, "App", "plain", "", "", FALSE, {"app"}, {"App"}, {}),
  S(50, 50, "update_globals", "", "", "", FALSE, {}, {"app"}, {}),
  S(51, 53, "block", "", "", "", FALSE, {"cwd"}, {"app", "os"}, {}),
  S(56, 62, "def", "display_image", "", "", FALSE, {"display_image"}, {}, {}),
  S(69, 78, "block", "", "", "", FALSE, {"image_export_format", "settings_720p"}, {"<api>"}, {}),
  S(85, 85, "download", "pymechanical/embedding/bracket_model.agdb", "", "geometry_path", FALSE, {"geometry_path"}, {"download_file"}, {}),
  S(86, 93, "block", "", "", "", FALSE, {"geometry_import", "geometry_import_format", "geometry_import_group_11", "geometry_import_preferences"}, {"<api>"}, {}),
  S(94, 96, "read_fixture", "pymechanical/embedding/bracket_model.agdb", "", "", FALSE, {}, {"geometry_import", "geometry_import_format", "geometry_import_preferences", "geometry_path"}, {}),
  S(99, 99, "assert", "str(geometry_import.ObjectState) == 'Solved'", "", "", FALSE, {}, {"geometry_import"}, {}),
  S(102, 109, "block", "", "", "", FALSE, {"NS_GRP"}, {"<api>", "app"}, {}),
  S(110, 112, "lookup", "boundary_cond", "0", "BOUNDARY_COND_NS", FALSE, {"BOUNDARY_COND_NS"}, {"<api>"}, {}),
  S(113, 113, "lookup", "loading", "0", "LOADING_NS", FALSE, {"LOADING_NS"}, {"<api>"}, {}),
  S(114, 116, "lookup", "exclusion_region", "0", "EXCLUSON_REGION_NS", FALSE, {"EXCLUSON_REGION_NS"}, {"<api>"}, {}),
  S(117, 117, "lookup", "bracket", "0", "BRACKET_NS", FALSE, {"BRACKET_NS"}, {"<api>"}, {}),
  S(123, 145, "block", "", "", "", FALSE, {"automatic_method_33", "mesh_13", "model_10", "selection", "sizing_35"}, {"<api>", "NS_GRP"}, {}),
  S(146, 146, "add_analysis", "StaticStructural", "", "analysis_51", FALSE, {"analysis_51"}, {"model_10"}, {}),
  S(152, 160, "block", "", "", "", FALSE, {"fixed_support_55", "force_57", "selection"}, {"<api>", "NS_GRP", "analysis_51"}, {}),
  S(166, 166, "analysis_ref", "0", "", "", FALSE, {"STAT_STRUC"}, {"<api>"}, {}),
  S(167, 173, "block", "", "", "", FALSE, {"SOLN", "Total_Deformation"}, {"STAT_STRUC"}, {}),
  S(179, 179, "solve", "", "Model.Analyses[0].Solution", "", TRUE, {}, {"SOLN"}, {}),
  S(180, 180, "read_status", "", "Model.Analyses[0].Solution", "STAT_STRUC_SS", FALSE, {"STAT_STRUC_SS"}, {"SOLN"}, {}),
  S(182, 182, "assert_status", "", "", "STAT_STRUC_SS", FALSE, {}, {"STAT_STRUC_SS"}, {}),
  S(189, 202, "block", "", "", "", FALSE, {"Messages", "message"}, {"<api>", "Total_Deformation"}, {}),
  S(203, 205, "export", "total_deformation.png", "", "", FALSE, {}, {"<api>", "cwd", "image_export_format", "os", "settings_720p"}, {}),
  S(206, 206, "call", "", "", "", FALSE, {}, {"display_image"}, {"display_image"}),
  S(213, 213, "add_analysis", "TopologyOptimization", "", "analysis_61", FALSE, {"analysis_61"}, {"model_10"}, {}),
  S(214, 214, "analysis_ref", "0", "", "", FALSE, {}, {"<api>", "analysis_61"}, {}),
  S(221, 254, "block", "", "", "", FALSE, {"Objective_type", "compliance_constraint_75", "mass_constraint_67", "optimization_region_64", "selection"}, {"<api>", "NS_GRP", "analysis_61"}, {}),
  S(259, 259, "analysis_ref", "1", "", "", FALSE, {"STAT_SHAPE"}, {"<api>"}, {}),
  S(260, 267, "block", "", "", "", FALSE, {"SOLN", "Topology_Density"}, {"<api>", "STAT_SHAPE"}, {}),
  S(273, 273, "solve", "", "Model.Analyses[1].Solution", "", TRUE, {}, {"SOLN"}, {}),
  S(274, 274, "read_status", "", "Model.Analyses[1].Solution", "STAT_SHAPE_SS", FALSE, {"STAT_SHAPE_SS"}, {"SOLN"}, {}),
  S(277, 277, "assert_status", "", "", "STAT_STRUC_SS", FALSE, {}, {"STAT_STRUC_SS"}, {}),
  S(284, 297, "block", "", "", "", FALSE, {"Messages", "message"}, {"<api>", "Topology_Density"}, {}),
  S(298, 300, "export", "topology_density.png", "", "", FALSE, {}, {"<api>", "cwd", "image_export_format", "os", "settings_720p"}, {}),
  S(301, 301, "call", "", "", "", FALSE, {}, {"display_image"}, {"display_image"}),
  S(309, 309, "save", "shape-optimization.mechdat", "", "", FALSE, {}, {"app", "cwd", "os"}, {}),
  S(310, 310, "new", "", "", "", FALSE, {}, {"app"}, {}),
  S(313, 313, "delete_downloads", "", "", "", FALSE, {}, {"delete_downloads"}, {})
  >>

\* src/examples/basic/LSDyna_analysis.py: the helper functions the script defines, each with the
\* global names its body reads (free) and the helpers it references (calls).
basic_LSDyna_analysis_defs ==
  [display_image |-> [free |-> {"cwd", "mpimg", "os", "plt"}, calls |-> {}],
   update |-> [free |-> {"gif", "img"}, calls |-> {}],
   print_tree |-> [free |-> {"print_tree"}, calls |-> {"print_tree"}]]

\* src/examples/basic/LSDyna_analysis.py: the script's top-level statements in execution order.
basic_LSDyna_analysis ==
  <<
  S(17, 26, "import", "", "", "", FALSE, {"Configuration", "FuncAnimation", "Image", "delete_downloads", "download_file", "logging", "mech", "mpimg", "os", "plt"}, {}, {}),
  S(28, 28, "block", "", "", "", FALSE, {}, {"Configuration", "logging"}, {}),
  S(30, 30, "App", "plain", "", "", FALSE, {"app"}, {"mech"}, {}),
  S(31, 31, "global_variables", "enums", "", "", FALSE, {}, {"app", "mech"}, {}),
  S(32, 34, "block", "", "", "", FALSE, {"cwd"}, {"app", "os"}, {}),
  S(37, 43, "def", "display_image", "", "", FALSE, {"display_image"}, {}, {}),
  S(49, 49, "import", "", "", "", FALSE, {"clr"}, {}, {}),
  S(51, 53, "block", "", "", "", FALSE, {}, {"clr"}, {}),
  S(54, 56, "import", "", "", "", FALSE, {"MechanicalEnums", "Point", "Vector3D"}, {}, {}),
  S(58, 83, "block", "", "", "", FALSE, {"image_export_format", "settings_720p", "true_scale"}, {"<api>", "MechanicalEnums", "Point", "Vector3D"}, {}),
  S(89, 89, "download", "pymechanical/00_basic/example_08_Taylor_Bar.agdb", "", "geometry_path", FALSE, {"geometry_path"}, {"download_file"}, {}),
  S(90, 90, "download", "pymechanical/00_basic/example_08_Taylor_Bar_Mat.xml", "", "mat_path", FALSE, {"mat_path"}, {"download_file"}, {}),
  S(96, 101, "block", "", "", "", FALSE, {"geometry_import", "geometry_import_format", "geometry_import_preferences"}, {"<api>"}, {}),
  S(102, 104, "read_fixture", "pymechanical/00_basic/example_08_Taylor_Bar.agdb", "", "", FALSE, {}, {"geometry_import", "geometry_import_format", "geometry_import_preferences", "geometry_path"}, {}),
  S(106, 106, "block", "", "", "", FALSE, {}, {"<api>"}, {}),
  S(107, 109, "export", "geometry.png", "", "", FALSE, {}, {"<api>", "cwd", "image_export_format", "os", "settings_720p"}, {}),
  S(110, 110, "call", "", "", "", FALSE, {}, {"display_image"}, {"display_image"}),
  S(116, 120, "block", "", "", "", FALSE, {"CONN", "CS", "MAT", "MESH", "NS"}, {"<api>"}, {}),
  S(127, 127, "add_analysis", "LSDyna", "", "LSD_Analysis", FALSE, {"LSD_Analysis"}, {"<api>"}, {}),
  S(128, 134, "block", "", "", "", FALSE, {"MAT"}, {"<api>"}, {}),
  S(135, 135, "read_fixture", "pymechanical/00_basic/example_08_Taylor_Bar_Mat.xml", "", "", FALSE, {}, {"MAT", "mat_path"}, {}),
  S(138, 158, "block", "", "", "", FALSE, {"cs", "lcs"}, {"<api>", "MESH"}, {}),
  S(159, 161, "export", "mesh.png", "", "", FALSE, {}, {"<api>", "cwd", "image_export_format", "os", "settings_720p"}, {}),
  S(162, 162, "call", "", "", "", FALSE, {}, {"display_image"}, {"display_image"}),
  S(167, 208, "block", "", "", "", FALSE, {"EPS", "SOLN", "TOT_DEFO", "ic", "rigid_wall", "selection", "vel"}, {"<api>", "LSD_Analysis", "lcs"}, {}),
  S(214, 214, "solve", "", "Model.AddLSDynaAnalysis()@127.Solution", "", TRUE, {}, {"SOLN"}, {}),
  S(217, 217, "assert_status", "", "Model.AddLSDynaAnalysis()@127.Solution", "", FALSE, {}, {"SOLN"}, {}),
  S(224, 240, "block", "", "", "", FALSE, {"Messages", "message"}, {"<api>", "TOT_DEFO"}, {}),
  S(241, 243, "export", "total_deformation.png", "", "", FALSE, {}, {"<api>", "cwd", "image_export_format", "os", "settings_720p"}, {}),
  S(244, 244, "call", "", "", "", FALSE, {}, {"display_image"}, {"display_image"}),
  S(250, 255, "block", "", "", "", FALSE, {"animation_export_format", "settings_720p"}, {"<api>"}, {}),
  S(257, 259, "export", "eps.gif", "", "", FALSE, {}, {"EPS", "animation_export_format", "cwd", "os", "settings_720p"}, {}),
  S(260, 263, "block", "", "", "", FALSE, {"ax", "fig", "gif", "img"}, {"Image", "cwd", "os", "plt"}, {}),
  S(266, 269, "def", "update", "", "", FALSE, {"update"}, {}, {}),
  S(272, 274, "call", "", "", "", FALSE, {"ani"}, {"FuncAnimation", "fig", "gif", "update"}, {"update"}),
  S(275, 275, "block", "", "", "", FALSE, {}, {"plt"}, {}),
  S(282, 294, "def", "print_tree", "", "", FALSE, {"print_tree"}, {}, {}),
  S(297, 297, "block", "", "", "", FALSE, {"root_node"}, {"<api>"}, {}),
  S(298, 298, "call", "", "", "", FALSE, {}, {"print_tree", "root_node"}, {"print_tree"}),
  S(305, 305, "save", "lsdyna_analysis.mechdat", "", "", FALSE, {}, {"app", "cwd", "os"}, {}),
  S(306, 306, "new", "", "", "", FALSE, {}, {"app"}, {}),
  S(309, 309, "delete_downloads", "", "", "", FALSE, {}, {"delete_downloads"}, {})
  >>

\* src/examples/basic/bolt_pretension.py: the helper functions the script defines, each with the
\* global names its body reads (free) and the helpers it references (calls).
basic_bolt_pretension_defs ==
  [display_image |-> [free |-> {"cwd", "mpimg", "os", "plt"}, calls |-> {}]]

\* src/examples/basic/bolt_pretension.py: the script's top-level statements in execution order.
basic_bolt_pretension ==
  <<
  S(13, 18, "import", "", "", "", FALSE, {"delete_downloads", "download_file", "mech", "mpimg", "os", "plt"}, {}, {}),
  S(21, 21, "App", "plain", "", "", FALSE, {"app"}, {"mech"}, {}),
  S(22, 22, "global_variables", "enums", "", "", FALSE, {}, {"app", "mech"}, {}),
  S(23, 23, "block", "", "", "", FALSE, {}, {"app"}, {}),
  S(26, 32, "def", "display_image", "", "", FALSE, {"display_image"}, {}, {}),
  S(35, 54, "block", "", "", "", FALSE, {"cwd", "image_export_format", "settings_720p"}, {"<api>", "os"}, {}),
  S(60, 62, "download", "pymechanical/00_basic/example_06_bolt_pret_geom.agdb", "", "geometry_path", FALSE, {"geometry_path"}, {"download_file"}, {}),
  S(63, 63, "read_fixture", "pymechanical/00_basic/example_06_bolt_pret_geom.agdb", "", "", FALSE, {"geometry_file"}, {"geometry_path"}, {}),
  S(64, 73, "block", "", "", "", FALSE, {"geometry_import", "geometry_import_format", "geometry_import_preferences"}, {"<api>", "geometry_file"}, {}),
  S(75, 75, "assert", "str(geometry_import.ObjectState) == 'Solved'", "", "", FALSE, {}, {"geometry_import"}, {}),
  S(78, 78, "block", "", "", "", FALSE, {}, {"<api>"}, {}),
  S(79, 81, "export", "geometry.png", "", "", FALSE, {}, {"<api>", "cwd", "image_export_format", "os", "settings_720p"}, {}),
  S(82, 82, "call", "", "", "", FALSE, {}, {"display_image"}, {"display_image"}),
  S(107, 107, "add_analysis", "StaticStructural", "", "", FALSE, {}, {"<api>"}, {}),
  S(108, 108, "analysis_ref", "0", "", "", FALSE, {"STAT_STRUC"}, {"<api>"}, {}),
  S(109, 125, "block", "", "", "", FALSE, {"CONN_GRP", "CS_GRP", "GEOM", "MODEL", "MSH", "NS_GRP", "STAT_STRUC_ANA_SETTING", "STAT_STRUC_SOLN"}, {"<api>", "STAT_STRUC"}, {}),
  S(129, 131, "lookup", "block3_block2_cont", "0", "block3_block2_cont_NS", FALSE, {"block3_block2_cont_NS"}, {"<api>"}, {}),
  S(132, 134, "lookup", "block3_block2_targ", "0", "block3_block2_targ_NS", FALSE, {"block3_block2_targ_NS"}, {"<api>"}, {}),
  S(135, 137, "lookup", "shank_block3_targ", "0", "shank_block3_targ_NS", FALSE, {"shank_block3_targ_NS"}, {"<api>"}, {}),
  S(138, 140, "lookup", "shank_block3_cont", "0", "shank_block3_cont_NS", FALSE, {"shank_block3_cont_NS"}, {"<api>"}, {}),
  S(141, 143, "lookup", "block1_washer_cont", "0", "block1_washer_cont_NS", FALSE, {"block1_washer_cont_NS"}, {"<api>"}, {}),
  S(144, 146, "lookup", "block1_washer_targ", "0", "block1_washer_targ_NS", FALSE, {"block1_washer_targ_NS"}, {"<api>"}, {}),
  S(147, 149, "lookup", "washer_bolt_cont", "0", "washer_bolt_cont_NS", FALSE, {"washer_bolt_cont_NS"}, {"<api>"}, {}),
  S(150, 152, "lookup", "washer_bolt_targ", "0", "washer_bolt_targ_NS", FALSE, {"washer_bolt_targ_NS"}, {"<api>"}, {}),
  S(153, 155, "lookup", "shank_bolt_targ", "0", "shank_bolt_targ_NS", FALSE, {"shank_bolt_targ_NS"}, {"<api>"}, {}),
  S(156, 158, "lookup", "shank_bolt_cont", "0", "shank_bolt_cont_NS", FALSE, {"shank_bolt_cont_NS"}, {"<api>"}, {}),
  S(159, 161, "lookup", "block2_block1_cont", "0", "block2_block1_cont_NS", FALSE, {"block2_block1_cont_NS"}, {"<api>"}, {}),
  S(162, 164, "lookup", "block2_block1_targ", "0", "block2_block1_targ_NS", FALSE, {"block2_block1_targ_NS"}, {"<api>"}, {}),
  S(165, 165, "lookup", "all_bodies", "0", "all_bodies", FALSE, {"all_bodies"}, {"<api>"}, {}),
  S(166, 166, "lookup", "bodies_5", "0", "bodies_5", FALSE, {"bodies_5"}, {"<api>"}, {}),
  S(167, 167, "lookup", "shank", "0", "shank", FALSE, {"shank"}, {"<api>"}, {}),
  S(168, 168, "lookup", "shank_face", "0", "shank_face", FALSE, {"shank_face"}, {"<api>"}, {}),
  S(169, 171, "lookup", "shank_face2", "0", "shank_face2", FALSE, {"shank_face2"}, {"<api>"}, {}),
  S(172, 174, "lookup", "bottom_surface", "0", "bottom_surface", FALSE, {"bottom_surface"}, {"<api>"}, {}),
  S(175, 177, "lookup", "block2_surface", "0", "block2_surface", FALSE, {"block2_surface"}, {"<api>"}, {}),
  S(178, 180, "lookup", "shank_surface", "0", "shank_surface", FALSE, {"shank_surface"}, {"<api>"}, {}),
  S(207, 319, "block", "", "", "", FALSE, {"AWM", "AWM3", "AWM6", "BODY_SIZING1", "BODY_SIZING2", "CMD1", "CMD3", "CMD6", "CONTS", "CONT_REG1", "CONT_REG2", "CONT_REG3", "CONT_REG4", "CONT_REG5", "CONT_REG6", "Face_Meshing", "Hex_Method", "Sweep_Method", "connection", "connections", "coordinate_system_93", "coordinate_systems_17"}, {"<api>", "CONN_GRP", "MSH", "NS_GRP", "all_bodies", "bodies_5", "shank", "shank_face", "shank_face2"}, {}),
  S(478, 478, "save", "bolt_pretension.mechdat", "", "", FALSE, {}, {"app", "cwd", "os"}, {}),
  S(479, 479, "new", "", "", "", FALSE, {}, {"app"}, {}),
  S(484, 484, "delete_downloads", "", "", "", FALSE, {}, {"delete_downloads"}, {})
  >>

\* src/examples/basic/contact_debonding.py: the helper functions the script defines, each with the
\* global names its body reads (free) and the helpers it references (calls).
basic_contact_debonding_defs ==
  [display_image |-> [free |-> {"cwd", "mpimg", "os", "plt"}, calls |-> {}]]

\* src/examples/basic/contact_debonding.py: the script's top-level statements in execution order.
basic_contact_debonding ==
  <<
  S(8, 13, "import", "", "", "", FALSE, {"delete_downloads", "download_file", "mech", "mpimg", "os", "plt"}, {}, {}),
  S(16, 16, "App", "plain", "", "", FALSE, {"app"}, {"mech"}, {}),
  S(17, 17, "global_variables", "enums", "", "", FALSE, {}, {"app", "mech"}, {}),
  S(18, 18, "block", "", "", "", FALSE, {}, {"app"}, {}),
  S(21, 26, "def", "display_image", "", "", FALSE, {"display_image"}, {}, {}),
  S(30, 30, "block", "", "", "", FALSE, {"cwd"}, {"os"}, {}),
  S(35, 37, "download", "pymechanical/embedding/Contact_Debonding_Example.agdb", "", "geometry_path", FALSE, {"geometry_path"}, {"download_file"}, {}),
  S(38, 40, "download", "pymechanical/embedding/Contact_Debonding_Example_Mat1.xml", "", "mat1_path", FALSE, {"mat1_path"}, {"download_file"}, {}),
  S(41, 43, "download", "pymechanical/embedding/Contact_Debonding_Example_Mat2.xml", "", "mat2_path", FALSE, {"mat2_path"}, {"download_file"}, {}),
  S(46, 71, "block", "", "", "", FALSE, {"geometry_import", "geometry_import_format", "geometry_import_group", "geometry_import_preferences", "image_export_format", "settings_720p"}, {"<api>"}, {}),
  S(72, 74, "read_fixture", "pymechanical/embedding/Contact_Debonding_Example.agdb", "", "", FALSE, {}, {"geometry_import", "geometry_import_format", "geometry_import_preferences", "geometry_path"}, {}),
  S(76, 76, "block", "", "", "", FALSE, {}, {"<api>"}, {}),
  S(77, 79, "export", "geometry.png", "", "", FALSE, {}, {"<api>", "cwd", "image_export_format", "os", "settings_720p"}, {}),
  S(80, 80, "call", "", "", "", FALSE, {}, {"display_image"}, {"display_image"}),
  S(83, 84, "block", "", "", "", FALSE, {"GEOMETRY", "MODEL"}, {"<api>"}, {}),
  S(85, 85, "lookup", "Part 2", "0", "PART", FALSE, {"PART"}, {"<api>"}, {}),
  S(87, 87, "block", "", "", "", FALSE, {"MAT_GRP"}, {"MODEL"}, {}),
  S(88, 88, "read_fixture", "pymechanical/embedding/Contact_Debonding_Example_Mat1.xml", "", "", FALSE, {}, {"MAT_GRP", "mat1_path"}, {}),
  S(89, 89, "read_fixture", "pymechanical/embedding/Contact_Debonding_Example_Mat2.xml", "", "", FALSE, {}, {"MAT_GRP", "mat2_path"}, {}),
  S(90, 94, "lookup", "Interface Body Material", "0", "MAT_BODY", FALSE, {"MAT_BODY"}, {"<api>", "MAT_GRP"}, {}),
  S(95, 99, "lookup", "CZM Crack Material", "0", "MAT_CZM", FALSE, {"MAT_CZM"}, {"<api>", "MAT_GRP"}, {}),
  S(101, 104, "block", "", "", "", FALSE, {"CONNECTIONS_GRP", "connections"}, {"<api>", "MODEL"}, {}),
  S(105, 111, "lookup", "Contacts", "0", "CONTACTS", FALSE, {"CONTACTS"}, {"<api>", "CONNECTIONS_GRP"}, {}),
  S(112, 118, "lookup", "Contact Region", "0", "CONTACT_REGION", FALSE, {"CONTACT_REGION"}, {"<api>", "CONTACTS"}, {}),
  S(120, 122, "block", "", "", "", FALSE, {"MESH", "NAMED_SELECTIONS"}, {"<api>"}, {}),
  S(123, 129, "lookup", "High_Edge", "0", "NS_EDGE_HIGH", FALSE, {"NS_EDGE_HIGH"}, {"<api>", "NAMED_SELECTIONS"}, {}),
  S(130, 136, "lookup", "Low_Edge", "0", "NS_EDGE_LOW", FALSE, {"NS_EDGE_LOW"}, {"<api>", "NAMED_SELECTIONS"}, {}),
  S(137, 143, "lookup", "Short_Edges", "0", "NS_EDGES_SHORT", FALSE, {"NS_EDGES_SHORT"}, {"<api>", "NAMED_SELECTIONS"}, {}),
  S(144, 150, "lookup", "Long_Edges", "0", "NS_EDGES_LONG", FALSE, {"NS_EDGES_LONG"}, {"<api>", "NAMED_SELECTIONS"}, {}),
  S(151, 157, "lookup", "Fixed_Edges", "0", "NS_EDGES_FIXED", FALSE, {"NS_EDGES_FIXED"}, {"<api>", "NAMED_SELECTIONS"}, {}),
  S(158, 164, "lookup", "Disp1_Vertex", "0", "NS_VERTEX_DISP1", FALSE, {"NS_VERTEX_DISP1"}, {"<api>", "NAMED_SELECTIONS"}, {}),
  S(165, 171, "lookup", "Disp2_Vertex", "0", "NS_VERTEX_DISP2", FALSE, {"NS_VERTEX_DISP2"}, {"<api>", "NAMED_SELECTIONS"}, {}),
  S(172, 178, "lookup", "Both_Faces", "0", "NS_FACES_BOTH", FALSE, {"NS_FACES_BOTH"}, {"<api>", "NAMED_SELECTIONS"}, {}),
  S(180, 180, "add_analysis", "StaticStructural", "", "", FALSE, {}, {"MODEL"}, {}),
  S(181, 225, "block", "", "", "", FALSE, {"ANALYSIS_SETTINGS", "FACE_MESHING", "SIZING_MESH", "SIZING_MESH2", "SOLUTION", "STATIC_STRUCTURAL"}, {"<api>", "CONTACT_REGION", "GEOMETRY", "MAT_BODY", "MESH", "NS_EDGES_LONG", "NS_EDGES_SHORT", "NS_EDGE_HIGH", "NS_EDGE_LOW", "NS_FACES_BOTH", "PART"}, {}),
  S(226, 228, "export", "mesh.png", "", "", FALSE, {}, {"<api>", "cwd", "image_export_format", "os", "settings_720p"}, {}),
  S(229, 229, "call", "", "", "", FALSE, {}, {"display_image"}, {"display_image"}),
  S(231, 255, "block", "", "", "", FALSE, {"CONTACT_DEBONDING", "DISPLACEMENT", "FIXED_SUPPORT", "FRACTURE"}, {"<api>", "ANALYSIS_SETTINGS", "CONTACT_REGION", "MAT_CZM", "MODEL", "NS_EDGES_FIXED", "NS_VERTEX_DISP1", "STATIC_STRUCTURAL"}, {}),
  S(256, 256, "set_load", "", "DISPLACEMENT.YComponent.Output", "[Quantity('10 [mm]')]", FALSE, {}, {"<api>", "DISPLACEMENT"}, {}),
  S(258, 261, "block", "", "", "", FALSE, {"DISPLACEMENT2"}, {"<api>", "NS_VERTEX_DISP2", "STATIC_STRUCTURAL"}, {}),
  S(262, 262, "set_load", "", "DISPLACEMENT2.YComponent.Output", "[Quantity('-10 [mm]')]", FALSE, {}, {"<api>", "DISPLACEMENT2"}, {}),
  S(265, 273, "block", "", "", "", FALSE, {"DIRECTIONAL_DEFORMATION", "FORCE_REACTION"}, {"<api>", "DISPLACEMENT", "SOLUTION", "STATIC_STRUCTURAL"}, {}),
  S(274, 274, "solve", "", "ExtAPI.DataModel.AnalysisByName()@181", "", TRUE, {}, {"STATIC_STRUCTURAL"}, {}),
  S(276, 283, "block", "", "", "", FALSE, {"MAX_DIRECTIONAL_DEFORMATION", "MIN_DIRECTIONAL_DEFORMATION", "MOT_Y_AXIS_FORCE_REACTION", "Y_AXIS_FORCE_REACTION"}, {"<api>", "DIRECTIONAL_DEFORMATION", "FORCE_REACTION"}, {}),
  S(284, 286, "export", "contact_force.png", "", "", FALSE, {}, {"<api>", "cwd", "image_export_format", "os", "settings_720p"}, {}),
  S(287, 287, "call", "", "", "", FALSE, {}, {"display_image"}, {"display_image"}),
  S(291, 296, "block", "", "", "", FALSE, {"animation_export_format", "settings_720p"}, {"<api>"}, {}),
  S(298, 300, "export", "force.gif", "", "", FALSE, {}, {"FORCE_REACTION", "animation_export_format", "cwd", "os", "settings_720p"}, {}),
  S(304, 304, "save", "debonding.mechdat", "", "", FALSE, {}, {"app", "cwd", "os"}, {}),
  S(305, 305, "new", "", "", "", FALSE, {}, {"app"}, {}),
  S(308, 308, "delete_downloads", "", "", "", FALSE, {}, {"delete_downloads"}, {})
  >>

\* src/examples/basic/fracture_analysis_contact_debonding.py: the helper functions the script defines, each with the
\* global names its body reads (free) and the helpers it references (calls).
basic_fracture_analysis_contact_debonding_defs ==
  [display_image |-> [free |-> {"cwd", "mpimg", "os", "plt"}, calls |-> {}],
   update |-> [free |-> {"gif", "img"}, calls |-> {}],
   write_file_contents_to_console |-> [free |-> {}, calls |-> {}],
   print_tree |-> [free |-> {"print_tree"}, calls |-> {"print_tree"}]]

\* src/examples/basic/fracture_analysis_contact_debonding.py: the script's top-level statements in execution order.
basic_fracture_analysis_contact_debonding ==
  <<
  S(16, 23, "import", "", "", "", FALSE, {"FuncAnimation", "Image", "delete_downloads", "download_file", "mech", "mpimg", "os", "plt"}, {}, {}),
  S(28, 28, "App", "plain", "", "", FALSE, {"app"}, {"mech"}, {}),
  S(29, 29, "global_variables", "enums", "", "", FALSE, {}, {"app", "mech"}, {}),
  S(30, 32, "block", "", "", "", FALSE, {"cwd"}, {"app", "os"}, {}),
  S(35, 41, "def", "display_image", "", "", FALSE, {"display_image"}, {}, {}),
  S(48, 55, "block", "", "", "", FALSE, {"image_export_format", "settings_720p"}, {"<api>"}, {}),
  S(61, 63, "download", "pymechanical/embedding/Contact_Debonding_Example.agdb", "", "geometry_path", FALSE, {"geometry_path"}, {"download_file"}, {}),
  S(64, 66, "download", "pymechanical/embedding/Contact_Debonding_Example_Mat1.xml", "", "mat1_path", FALSE, {"mat1_path"}, {"download_file"}, {}),
  S(67, 69, "download", "pymechanical/embedding/Contact_Debonding_Example_Mat2.xml", "", "mat2_path", FALSE, {"mat2_path"}, {"download_file"}, {}),
  S(76, 84, "block", "", "", "", FALSE, {"geometry_import", "geometry_import_format", "geometry_import_preferences"}, {"<api>"}, {}),
  S(85, 87, "read_fixture", "pymechanical/embedding/Contact_Debonding_Example.agdb", "", "", FALSE, {}, {"geometry_import", "geometry_import_format", "geometry_import_preferences", "geometry_path"}, {}),
  S(89, 89, "block", "", "", "", FALSE, {}, {"<api>"}, {}),
  S(90, 92, "export", "geometry.png", "", "", FALSE, {}, {"<api>", "cwd", "image_export_format", "os", "settings_720p"}, {}),
  S(93, 93, "call", "", "", "", FALSE, {}, {"display_image"}, {"display_image"}),
  S(100, 102, "block", "", "", "", FALSE, {"GEOMETRY", "MAT_GRP", "MODEL"}, {"<api>"}, {}),
  S(103, 103, "read_fixture", "pymechanical/embedding/Contact_Debonding_Example_Mat1.xml", "", "", FALSE, {}, {"MAT_GRP", "mat1_path"}, {}),
  S(104, 104, "read_fixture", "pymechanical/embedding/Contact_Debonding_Example_Mat2.xml", "", "", FALSE, {}, {"MAT_GRP", "mat2_path"}, {}),
  S(106, 106, "lookup", "Part 2", "0", "PART", FALSE, {"PART"}, {"<api>"}, {}),
  S(107, 111, "lookup", "Interface Body Material", "0", "MAT_BODY", FALSE, {"MAT_BODY"}, {"<api>", "MAT_GRP"}, {}),
  S(112, 116, "lookup", "CZM Crack Material", "0", "MAT_CZM", FALSE, {"MAT_CZM"}, {"<api>", "MAT_GRP"}, {}),
  S(121, 124, "block", "", "", "", FALSE, {"CONNECTIONS_GRP", "connections"}, {"<api>", "MODEL"}, {}),
  S(125, 131, "lookup", "Contacts", "0", "CONTACTS", FALSE, {"CONTACTS"}, {"<api>", "CONNECTIONS_GRP"}, {}),
  S(132, 138, "lookup", "Contact Region", "0", "CONTACT_REGION", FALSE, {"CONTACT_REGION"}, {"<api>", "CONTACTS"}, {}),
  S(143, 143, "block", "", "", "", FALSE, {"NAMED_SELECTIONS"}, {"<api>"}, {}),
  S(144, 150, "lookup", "High_Edge", "0", "NS_EDGE_HIGH", FALSE, {"NS_EDGE_HIGH"}, {"<api>", "NAMED_SELECTIONS"}, {}),
  S(151, 157, "lookup", "Low_Edge", "0", "NS_EDGE_LOW", FALSE, {"NS_EDGE_LOW"}, {"<api>", "NAMED_SELECTIONS"}, {}),
  S(158, 164, "lookup", "Short_Edges", "0", "NS_EDGES_SHORT", FALSE, {"NS_EDGES_SHORT"}, {"<api>", "NAMED_SELECTIONS"}, {}),
  S(165, 171, "lookup", "Long_Edges", "0", "NS_EDGES_LONG", FALSE, {"NS_EDGES_LONG"}, {"<api>", "NAMED_SELECTIONS"}, {}),
  S(172, 178, "lookup", "Fixed_Edges", "0", "NS_EDGES_FIXED", FALSE, {"NS_EDGES_FIXED"}, {"<api>", "NAMED_SELECTIONS"}, {}),
  S(179, 185, "lookup", "Disp1_Vertex", "0", "NS_VERTEX_DISP1", FALSE, {"NS_VERTEX_DISP1"}, {"<api>", "NAMED_SELECTIONS"}, {}),
  S(186, 192, "lookup", "Disp2_Vertex", "0", "NS_VERTEX_DISP2", FALSE, {"NS_VERTEX_DISP2"}, {"<api>", "NAMED_SELECTIONS"}, {}),
  S(193, 199, "lookup", "Both_Faces", "0", "NS_FACES_BOTH", FALSE, {"NS_FACES_BOTH"}, {"<api>", "NAMED_SELECTIONS"}, {}),
  S(205, 205, "add_analysis", "StaticStructural", "", "", FALSE, {}, {"MODEL"}, {}),
  S(206, 259, "block", "", "", "", FALSE, {"ANALYSIS_SETTINGS", "FACE_MESHING", "MESH", "SIZING_MESH", "SIZING_MESH2", "SOLUTION", "STATIC_STRUCTURAL"}, {"<api>", "CONTACT_REGION", "GEOMETRY", "MAT_BODY", "NS_EDGES_LONG", "NS_EDGES_SHORT", "NS_EDGE_HIGH", "NS_EDGE_LOW", "NS_FACES_BOTH", "PART"}, {}),
  S(260, 262, "export", "mesh.png", "", "", FALSE, {}, {"<api>", "cwd", "image_export_format", "os", "settings_720p"}, {}),
  S(263, 263, "call", "", "", "", FALSE, {}, {"display_image"}, {"display_image"}),
  S(269, 303, "block", "", "", "", FALSE, {"CONTACT_DEBONDING", "DISPLACEMENT", "FIXED_SUPPORT", "FRACTURE"}, {"<api>", "ANALYSIS_SETTINGS", "CONTACT_REGION", "MAT_CZM", "MODEL", "NS_EDGES_FIXED", "NS_VERTEX_DISP1", "STATIC_STRUCTURAL"}, {}),
  S(304, 304, "set_load", "", "DISPLACEMENT.YComponent.Output", "[Quantity('10 [mm]')]", FALSE, {}, {"<api>", "DISPLACEMENT"}, {}),
  S(306, 309, "block", "", "", "", FALSE, {"DISPLACEMENT2"}, {"<api>", "NS_VERTEX_DISP2", "STATIC_STRUCTURAL"}, {}),
  S(310, 310, "set_load", "", "DISPLACEMENT2.YComponent.Output", "[Quantity('-10 [mm]')]", FALSE, {}, {"<api>", "DISPLACEMENT2"}, {}),
  S(312, 314, "block", "", "", "", FALSE, {}, {"<api>", "STATIC_STRUCTURAL"}, {}),
  S(315, 317, "export", "boundary_conditions.png", "", "", FALSE, {}, {"<api>", "cwd", "image_export_format", "os", "settings_720p"}, {}),
  S(318, 318, "call", "", "", "", FALSE, {}, {"display_image"}, {"display_image"}),
  S(324, 335, "block", "", "", "", FALSE, {"DIRECTIONAL_DEFORMATION", "FORCE_REACTION"}, {"<api>", "DISPLACEMENT", "SOLUTION", "STATIC_STRUCTURAL"}, {}),
  S(336, 336, "solve", "", "ExtAPI.DataModel.AnalysisByName()@206.Solution", "", TRUE, {}, {"SOLUTION"}, {}),
  S(339, 339, "assert_status", "", "ExtAPI.DataModel.AnalysisByName()@206.Solution", "", FALSE, {}, {"SOLUTION"}, {}),
  S(346, 358, "block", "", "", "", FALSE, {"Messages", "message"}, {"<api>", "DIRECTIONAL_DEFORMATION"}, {}),
  S(360, 362, "export", "directional_deformation.png", "", "", FALSE, {}, {"<api>", "cwd", "image_export_format", "os", "settings_720p"}, {}),
  S(363, 363, "call", "", "", "", FALSE, {}, {"display_image"}, {"display_image"}),
  S(368, 370, "block", "", "", "", FALSE, {}, {"<api>", "FORCE_REACTION"}, {}),
  S(371, 373, "export", "force_reaction.png", "", "", FALSE, {}, {"<api>", "cwd", "image_export_format", "os", "settings_720p"}, {}),
  S(374, 374, "call", "", "", "", FALSE, {}, {"display_image"}, {"display_image"}),
  S(380, 385, "block", "", "", "", FALSE, {"animation_export_format", "settings_720p"}, {"<api>"}, {}),
  S(387, 389, "export", "force_reaction.gif", "", "", FALSE, {}, {"FORCE_REACTION", "animation_export_format", "cwd", "os", "settings_720p"}, {}),
  S(390, 393, "block", "", "", "", FALSE, {"ax", "fig", "gif", "img"}, {"Image", "cwd", "os", "plt"}, {}),
  S(396, 399, "def", "update", "", "", FALSE, {"update"}, {}, {}),
  S(402, 404, "call", "", "", "", FALSE, {"ani"}, {"FuncAnimation", "fig", "gif", "update"}, {"update"}),
  S(405, 405, "block", "", "", "", FALSE, {}, {"plt"}, {}),
  S(412, 416, "def", "write_file_contents_to_console", "", "", FALSE, {"write_file_contents_to_console"}, {}, {}),
  S(419, 420, "block", "", "", "", FALSE, {"solve_out_path", "solve_path"}, {"STATIC_STRUCTURAL", "os"}, {}),
  S(421, 422, "show_solve_out", "solve.out", "", "", FALSE, {}, {"solve_out_path", "write_file_contents_to_console"}, {"write_file_contents_to_console"}),
  S(429, 438, "def", "print_tree", "", "", FALSE, {"print_tree"}, {}, {}),
  S(441, 441, "block", "", "", "", FALSE, {"root_node"}, {"<api>"}, {}),
  S(442, 442, "call", "", "", "", FALSE, {}, {"print_tree", "root_node"}, {"print_tree"}),
  S(449, 449, "save", "contact_debonding.mechdat", "", "", FALSE, {}, {"app", "cwd", "os"}, {}),
  S(450, 450, "new", "", "", "", FALSE, {}, {"app"}, {}),
  S(455, 455, "delete_downloads", "", "", "", FALSE, {}, {"delete_downloads"}, {})
  >>

\* src/examples/basic/modal_acoustics.py: the helper functions the script defines, each with the
\* global names its body reads (free) and the helpers it references (calls).
basic_modal_acoustics_defs ==
  [display_image |-> [free |-> {"cwd", "mpimg", "os", "plt"}, calls |-> {}],
   update |-> [free |-> {"gif", "img"}, calls |-> {}]]

\* src/examples/basic/modal_acoustics.py: the script's top-level statements in execution order.
basic_modal_acoustics ==
  <<
  S(11, 18, "import", "", "", "", FALSE, {"FuncAnimation", "Image", "delete_downloads", "download_file", "mech", "mpimg", "os", "plt"}, {}, {}),
  S(23, 23, "App", "plain", "", "", FALSE, {"app"}, {"mech"}, {}),
  S(24, 24, "global_variables", "enums", "", "", FALSE, {}, {"app", "mech"}, {}),
  S(25, 27, "block", "", "", "", FALSE, {"cwd"}, {"app", "os"}, {}),
  S(30, 36, "def", "display_image", "", "", FALSE, {"display_image"}, {}, {}),
  S(43, 50, "block", "", "", "", FALSE, {"image_export_format", "settings_720p"}, {"<api>"}, {}),
  S(52, 52, "download", "pymechanical/embedding/sloshing_geometry.agdb", "", "geometry_path", FALSE, {"geometry_path"}, {"download_file"}, {}),
  S(53, 53, "download", "pymechanical/embedding/Water_material_explicit.xml", "", "mat_path", FALSE, {"mat_path"}, {"download_file"}, {}),
  S(57, 63, "block", "", "", "", FALSE, {"geometry_import", "geometry_import_format", "geometry_import_group", "geometry_import_preferences"}, {"<api>"}, {}),
  S(64, 66, "read_fixture", "pymechanical/embedding/sloshing_geometry.agdb", "", "", FALSE, {}, {"geometry_import", "geometry_import_format", "geometry_import_preferences", "geometry_path"}, {}),
  S(67, 67, "add_analysis", "ModalAcoustic", "", "", FALSE, {}, {"<api>"}, {}),
  S(68, 68, "block", "", "", "", FALSE, {"material"}, {"<api>"}, {}),
  S(69, 69, "read_fixture", "pymechanical/embedding/Water_material_explicit.xml", "", "", FALSE, {}, {"mat_path", "material"}, {}),
  S(71, 76, "block", "", "", "", FALSE, {"CONN", "GEOM", "MESH", "NS"}, {"<api>"}, {}),
  S(79, 83, "lookup", "Acoustic_bodies", "0", "acst_bodies", FALSE, {"acst_bodies"}, {"<api>", "NS"}, {}),
  S(84, 88, "lookup", "Structural_bodies", "0", "struct_bodies", FALSE, {"struct_bodies"}, {"<api>", "NS"}, {}),
  S(89, 93, "lookup", "top_bodies", "0", "top_bodies", FALSE, {"top_bodies"}, {"<api>", "NS"}, {}),
  S(94, 98, "lookup", "container_bodies", "0", "cont_bodies", FALSE, {"cont_bodies"}, {"<api>", "NS"}, {}),
  S(99, 103, "lookup", "Cont_V1", "0", "cont_V1", FALSE, {"cont_V1"}, {"<api>", "NS"}, {}),
  S(104, 108, "lookup", "Cont_V2", "0", "cont_V2", FALSE, {"cont_V2"}, {"<api>", "NS"}, {}),
  S(109, 113, "lookup", "Cont_V3", "0", "cont_V3", FALSE, {"cont_V3"}, {"<api>", "NS"}, {}),
  S(114, 118, "lookup", "Cont_face1", "0", "cont_face1", FALSE, {"cont_face1"}, {"<api>", "NS"}, {}),
  S(119, 123, "lookup", "Cont_face2", "0", "cont_face2", FALSE, {"cont_face2"}, {"<api>", "NS"}, {}),
  S(124, 128, "lookup", "Cont_face3", "0", "cont_face3", FALSE, {"cont_face3"}, {"<api>", "NS"}, {}),
  S(129, 133, "lookup", "Cont_face4", "0", "cont_face4", FALSE, {"cont_face4"}, {"<api>", "NS"}, {}),
  S(134, 138, "lookup", "Free_faces", "0", "free_faces", FALSE, {"free_faces"}, {"<api>", "NS"}, {}),
  S(139, 143, "lookup", "FSI_faces", "0", "fsi_faces", FALSE, {"fsi_faces"}, {"<api>", "NS"}, {}),
  S(146, 150, "lookup", "Solid1", "0", "solid1", FALSE, {"solid1"}, {"<api>", "GEOM"}, {}),
  S(151, 155, "lookup", "Solid2", "0", "solid2", FALSE, {"solid2"}, {"<api>", "GEOM"}, {}),
  S(156, 160, "lookup", "Solid3", "0", "solid3", FALSE, {"solid3"}, {"<api>", "GEOM"}, {}),
  S(161, 165, "lookup", "Solid4", "0", "solid4", FALSE, {"solid4"}, {"<api>", "GEOM"}, {}),
  S(167, 263, "block", "", "", "", FALSE, {"CONN_GROUP", "CONT1", "CONT2", "CONT3", "CONT4", "cnv4", "cont_V4", "method1", "method2", "method3", "sel_manager", "sizing1", "sizing2"}, {"<api>", "CONN", "MESH", "acst_bodies", "cont_V1", "cont_V2", "cont_V3", "cont_bodies", "cont_face1", "cont_face2", "cont_face3", "cont_face4", "solid1", "solid2", "solid3", "solid4", "top_bodies"}, {}),
  S(266, 266, "analysis_ref", "0", "", "", FALSE, {"MODAL_ACST"}, {"<api>"}, {}),
  S(267, 290, "block", "", "", "", FALSE, {"ACCELERATION", "ACOUST_REG", "ANALYSIS_SETTINGS", "FREE_SF", "FSI_OBJ", "STRUCT_REG"}, {"<api>", "MODAL_ACST", "acst_bodies", "free_faces", "fsi_faces", "struct_bodies"}, {}),
  S(291, 291, "set_load", "", "ACCELERATION.YComponent.Output", "[Quantity('9.81 [m sec^-1 sec^-1]')]", FALSE, {}, {"<api>", "ACCELERATION"}, {}),
  S(297, 305, "block", "", "", "", FALSE, {"FIXED_SUPPORT", "fv1", "fv2", "fv3", "fv4", "fvert"}, {"<api>", "MODAL_ACST", "sel_manager"}, {}),
  S(309, 309, "analysis_ref", "0", "", "", FALSE, {"soln"}, {"<api>"}, {}),
  S(310, 357, "block", "", "", "", FALSE, {"ACOUST_PRES_RES", "FORCE_REACT1", "TOT_DEF1", "TOT_DEF10", "TOT_DEF11", "TOT_DEF12", "TOT_DEF2", "TOT_DEF3", "TOT_DEF4", "TOT_DEF5", "TOT_DEF6", "TOT_DEF7", "TOT_DEF8", "TOT_DEF9"}, {"ANALYSIS_SETTINGS", "FIXED_SUPPORT", "soln"}, {}),
  S(361, 361, "solve", "", "Model.Analyses[0].Solution", "", TRUE, {}, {"soln"}, {}),
  S(366, 367, "block", "", "", "", FALSE, {}, {"<api>", "TOT_DEF1"}, {}),
  S(368, 370, "export", "TOT_DEF1.png", "", "", FALSE, {}, {"<api>", "cwd", "image_export_format", "os", "settings_720p"}, {}),
  S(371, 371, "call", "", "", "", FALSE, {}, {"display_image"}, {"display_image"}),
  S(374, 441, "block", "", "", "", FALSE, {"FRC1_X", "FRC1_Z", "FREQ1", "FREQ10", "FREQ11", "FREQ12", "FREQ2", "FREQ3", "FREQ4", "FREQ5", "FREQ6", "FREQ7", "FREQ8", "FREQ9", "PRMAX", "PRMIN", "animation_export_format", "settings_720p"}, {"<api>", "ACOUST_PRES_RES", "FORCE_REACT1", "TOT_DEF1", "TOT_DEF10", "TOT_DEF11", "TOT_DEF12", "TOT_DEF2", "TOT_DEF3", "TOT_DEF4", "TOT_DEF5", "TOT_DEF6", "TOT_DEF7", "TOT_DEF8", "TOT_DEF9"}, {}),
  S(444, 446, "export", "deformation_2.gif", "", "", FALSE, {}, {"TOT_DEF2", "animation_export_format", "cwd", "os", "settings_720p"}, {}),
  S(447, 450, "block", "", "", "", FALSE, {"ax", "fig", "gif", "img"}, {"Image", "cwd", "os", "plt"}, {}),
  S(453, 456, "def", "update", "", "", FALSE, {"update"}, {}, {}),
  S(459, 461, "call", "", "", "", FALSE, {"ani"}, {"FuncAnimation", "fig", "gif", "update"}, {"update"}),
  S(462, 462, "block", "", "", "", FALSE, {}, {"plt"}, {}),
  S(469, 469, "save", "modal_acou.mechdat", "", "", FALSE, {}, {"app", "cwd", "os"}, {}),
  S(470, 470, "new", "", "", "", FALSE, {}, {"app"}, {}),
  S(475, 475, "delete_downloads", "", "", "", FALSE, {}, {"delete_downloads"}, {})
  >>

\* src/examples/basic/steady_state_thermal_analysis.py: the helper functions the script defines, each with the
\* global names its body reads (free) and the helpers it references (calls).
basic_steady_state_thermal_analysis_defs ==
  [display_image |-> [free |-> {"cwd", "mpimg", "os", "plt"}, calls |-> {}],
   update |-> [free |-> {"gif", "img"}, calls |-> {}]]

\* src/examples/basic/steady_state_thermal_analysis.py: the script's top-level statements in execution order.
basic_steady_state_thermal_analysis ==
  <<
  S(14, 21, "import", "", "", "", FALSE, {"FuncAnimation", "Image", "delete_downloads", "download_file", "mech", "mpimg", "os", "plt"}, {}, {}),
  S(24, 24, "App", "plain", "", "", FALSE, {"app"}, {"mech"}, {}),
  S(25, 25, "global_variables", "enums", "", "", FALSE, {}, {"app", "mech"}, {}),
  S(26, 29, "block", "", "", "", FALSE, {"cwd"}, {"app", "os"}, {}),
  S(32, 38, "def", "display_image", "", "", FALSE, {"display_image"}, {}, {}),
  S(45, 53, "block", "", "", "", FALSE, {"image_export_format", "settings_720p"}, {"<api>"}, {}),
  S(61, 61, "download", "pymechanical/embedding/LONGBAR.x_t", "", "geometry_path", FALSE, {"geometry_path"}, {"download_file"}, {}),
  S(66, 72, "block", "", "", "", FALSE, {"geometry_import", "geometry_import_format", "geometry_import_group", "geometry_import_preferences"}, {"<api>"}, {}),
  S(73, 75, "read_fixture", "pymechanical/embedding/LONGBAR.x_t", "", "", FALSE, {}, {"geometry_import", "geometry_import_format", "geometry_import_preferences", "geometry_path"}, {}),
  S(77, 77, "block", "", "", "", FALSE, {}, {"<api>"}, {}),
  S(78, 80, "export", "geometry.png", "", "", FALSE, {}, {"<api>", "cwd", "image_export_format", "os", "settings_720p"}, {}),
  S(81, 81, "call", "", "", "", FALSE, {}, {"display_image"}, {"display_image"}),
  S(88, 88, "add_analysis", "SteadyStateThermal", "", "", FALSE, {}, {"<api>"}, {}),
  S(89, 89, "block", "", "", "", FALSE, {}, {"<api>"}, {}),
  S(90, 90, "analysis_ref", "0", "", "", FALSE, {"STAT_THERM"}, {"<api>"}, {}),
  S(91, 106, "block", "", "", "", FALSE, {"CS", "FACE1", "LCS1", "LCS2", "MODEL"}, {"<api>"}, {}),
  S(107, 107, "set_name", "Face1", "FACE1", "", FALSE, {}, {"FACE1"}, {}),
  S(108, 121, "block", "", "", "", FALSE, {"CRT1", "FACE2", "GEN_CRT1"}, {"<api>", "FACE1"}, {}),
  S(122, 122, "set_name", "Face2", "FACE2", "", FALSE, {}, {"FACE2"}, {}),
  S(123, 136, "block", "", "", "", FALSE, {"CRT1", "FACE3", "GEN_CRT2"}, {"<api>", "FACE2"}, {}),
  S(137, 137, "set_name", "Face3", "FACE3", "", FALSE, {}, {"FACE3"}, {}),
  S(138, 183, "block", "", "", "", FALSE, {"BODY1", "CRT1", "CRT2", "CRT3", "CRT4", "CRT5", "GEN_CRT3"}, {"<api>", "FACE3"}, {}),
  S(184, 184, "set_name", "Body1", "BODY1", "", FALSE, {}, {"BODY1"}, {}),
  S(185, 216, "block", "", "", "", FALSE, {"CONST_GEOM", "Path", "SURF", "TEMP"}, {"<api>", "BODY1", "FACE1", "LCS2", "MODEL", "STAT_THERM"}, {}),
  S(217, 217, "set_load", "", "TEMP.Magnitude.Output", "[Quantity('22[C]'), Quantity('30[C]')]", FALSE, {}, {"<api>", "TEMP"}, {}),
  S(219, 220, "block", "", "", "", FALSE, {"TEMP2"}, {"FACE2", "STAT_THERM"}, {}),
  S(221, 221, "set_load", "", "TEMP2.Magnitude.Output", "[Quantity('22[C]'), Quantity('60[C]')]", FALSE, {}, {"<api>", "TEMP2"}, {}),
  S(223, 227, "set_load", "", "TEMP.Magnitude.Inputs[0]", "[ Quantity('0 [sec]'), Quantity('1 [sec]'), Quantity('2 [sec]'), ]", FALSE, {}, {"<api>", "TEMP"}, {}),
  S(228, 232, "set_load", "", "TEMP.Magnitude.Output", "[ Quantity('22[C]'), Quantity('30[C]'), Quantity('40[C]'), ]", FALSE, {}, {"<api>", "TEMP"}, {}),
  S(234, 238, "set_load", "", "TEMP2.Magnitude.Inputs[0]", "[ Quantity('0 [sec]'), Quantity('1 [sec]'), Quantity('2 [sec]'), ]", FALSE, {}, {"<api>", "TEMP2"}, {}),
  S(239, 243, "set_load", "", "TEMP2.Magnitude.Output", "[ Quantity('22[C]'), Quantity('50[C]'), Quantity('80[C]'), ]", FALSE, {}, {"<api>", "TEMP2"}, {}),
  S(246, 247, "block", "", "", "", FALSE, {"RAD"}, {"FACE3", "STAT_THERM"}, {}),
  S(248, 252, "set_load", "", "RAD.AmbientTemperature.Inputs[0]", "[ Quantity('0 [sec]'), Quantity('1 [sec]'), Quantity('2 [sec]'), ]", FALSE, {}, {"<api>", "RAD"}, {}),
  S(253, 257, "set_load", "", "RAD.AmbientTemperature.Output", "[ Quantity('22[C]'), Quantity('30[C]'), Quantity('40[C]'), ]", FALSE, {}, {"<api>", "RAD"}, {}),
  S(258, 260, "block", "", "", "", FALSE, {"ANLYS_SET"}, {"<api>", "RAD", "STAT_THERM"}, {}),
  S(261, 261, "number_of_steps", "2", "ANLYS_SET", "", FALSE, {}, {"ANLYS_SET"}, {}),
  S(262, 265, "block", "", "", "", FALSE, {}, {"<api>", "ANLYS_SET", "STAT_THERM"}, {}),
  S(266, 268, "export", "BoundaryConditions.png", "", "", FALSE, {}, {"<api>", "cwd", "image_export_format", "os", "settings_720p"}, {}),
  S(269, 269, "call", "", "", "", FALSE, {}, {"display_image"}, {"display_image"}),
  S(275, 275, "analysis_ref", "0", "", "", FALSE, {"STAT_THERM_SOLN"}, {"<api>"}, {}),
  S(276, 331, "block", "", "", "", FALSE, {"DIR_HFLUX", "HFLUX_PROBE", "REAC_PROBE", "Rad_Probe", "TEMP_PROBE", "TEMP_RST", "TEMP_RST2", "TEMP_RST3", "TEMP_RST4", "THERM_ERROR", "TOT_HFLUX"}, {"<api>", "ANLYS_SET", "BODY1", "FACE1", "LCS2", "Path", "RAD", "STAT_THERM_SOLN", "SURF"}, {}),
  S(338, 338, "solve", "", "Model.Analyses[0].Solution", "", TRUE, {}, {"STAT_THERM_SOLN"}, {}),
  S(341, 341, "assert_status", "", "Model.Analyses[0].Solution", "", FALSE, {}, {"STAT_THERM_SOLN"}, {}),
  S(350, 351, "block", "", "", "", FALSE, {}, {"<api>", "TEMP_RST"}, {}),
  S(352, 354, "export", "temp.png", "", "", FALSE, {}, {"<api>", "cwd", "image_export_format", "os", "settings_720p"}, {}),
  S(355, 355, "call", "", "", "", FALSE, {}, {"display_image"}, {"display_image"}),
  S(360, 361, "block", "", "", "", FALSE, {}, {"<api>", "TEMP_RST2"}, {}),
  S(362, 364, "export", "temp2.png", "", "", FALSE, {}, {"<api>", "cwd", "image_export_format", "os", "settings_720p"}, {}),
  S(365, 365, "call", "", "", "", FALSE, {}, {"display_image"}, {"display_image"}),
  S(370, 371, "block", "", "", "", FALSE, {}, {"<api>", "TEMP_RST3"}, {}),
  S(372, 374, "export", "temp3.png", "", "", FALSE, {}, {"<api>", "cwd", "image_export_format", "os", "settings_720p"}, {}),
  S(375, 375, "call", "", "", "", FALSE, {}, {"display_image"}, {"display_image"}),
  S(380, 381, "block", "", "", "", FALSE, {}, {"<api>", "TEMP_RST4"}, {}),
  S(382, 384, "export", "temp4.png", "", "", FALSE, {}, {"<api>", "cwd", "image_export_format", "os", "settings_720p"}, {}),
  S(385, 385, "call", "", "", "", FALSE, {}, {"display_image"}, {"display_image"}),
  S(391, 399, "block", "", "", "", FALSE, {"animation_export_format", "settings_720p"}, {"<api>", "DIR_HFLUX"}, {}),
  S(401, 403, "export", "DirectionalHeatFlux.gif", "", "", FALSE, {}, {"DIR_HFLUX", "animation_export_format", "cwd", "os", "settings_720p"}, {}),
  S(404, 407, "block", "", "", "", FALSE, {"ax", "fig", "gif", "img"}, {"Image", "cwd", "os", "plt"}, {}),
  S(410, 413, "def", "update", "", "", FALSE, {"update"}, {}, {}),
  S(416, 418, "call", "", "", "", FALSE, {"ani"}, {"FuncAnimation", "fig", "gif", "update"}, {"update"}),
  S(419, 419, "block", "", "", "", FALSE, {}, {"plt"}, {}),
  S(426, 426, "save", "Steady_State_Thermal.mechdat", "", "", FALSE, {}, {"app", "cwd", "os"}, {}),
  S(427, 427, "new", "", "", "", FALSE, {}, {"app"}, {}),
  S(432, 432, "delete_downloads", "", "", "", FALSE, {}, {"delete_downloads"}, {})
  >>

\* src/examples/basic/topology_optimization_cantilever.py: the helper functions the script defines, each with the
\* global names its body reads (free) and the helpers it references (calls).
basic_topology_optimization_cantilever_defs ==
  [display_image |-> [free |-> {"cwd", "mpimg", "os", "plt"}, calls |-> {}]]

\* src/examples/basic/topology_optimization_cantilever.py: the script's top-level statements in execution order.
basic_topology_optimization_cantilever ==
  <<
  S(10, 15, "import", "", "", "", FALSE, {"delete_downloads", "download_file", "mech", "mpimg", "os", "plt"}, {}, {}),
  S(18, 18, "App", "plain", "", "", FALSE, {"app"}, {"mech"}, {}),
  S(19, 19, "global_variables", "plain", "", "", FALSE, {}, {"app", "mech"}, {}),
  S(20, 20, "block", "", "", "", FALSE, {}, {"app"}, {}),
  S(22, 26, "import", "*", "", "", FALSE, {}, {}, {}),
  S(29, 35, "def", "display_image", "", "", FALSE, {"display_image"}, {}, {}),
  S(38, 38, "block", "", "", "", FALSE, {"cwd"}, {"os"}, {}),
  S(40, 42, "download", "pymechanical/embedding/cantilever.mechdat", "", "structural_mechdat_file", FALSE, {"structural_mechdat_file"}, {"download_file"}, {}),
  S(43, 43, "open", "pymechanical/embedding/cantilever.mechdat", "", "", FALSE, {}, {"app", "structural_mechdat_file"}, {}),
  S(44, 44, "analysis_ref", "0", "", "", FALSE, {"STRUCT"}, {"<api>"}, {}),
  S(45, 45, "assert", "str(STRUCT.ObjectState) == 'Solved'", "", "", FALSE, {}, {"STRUCT"}, {}),
  S(46, 46, "block", "", "", "", FALSE, {"STRUCT_SLN"}, {"STRUCT"}, {}),
  S(47, 47, "solve", "", "Model.Analyses[0].Solution", "", TRUE, {}, {"STRUCT_SLN"}, {}),
  S(48, 48, "assert_status", "", "Model.Analyses[0].Solution", "", FALSE, {}, {"STRUCT_SLN"}, {}),
  S(53, 75, "block", "", "", "", FALSE, {"image_export_format", "settings_720p"}, {"<api>", "STRUCT_SLN"}, {}),
  S(76, 78, "export", "total_deformation.png", "", "", FALSE, {}, {"<api>", "cwd", "image_export_format", "os", "settings_720p"}, {}),
  S(79, 79, "call", "", "", "", FALSE, {}, {"display_image"}, {"display_image"}),
  S(84, 85, "block", "", "", "", FALSE, {}, {"<api>", "STRUCT_SLN"}, {}),
  S(86, 88, "export", "equivalent_stress.png", "", "", FALSE, {}, {"<api>", "cwd", "image_export_format", "os", "settings_720p"}, {}),
  S(89, 89, "call", "", "", "", FALSE, {}, {"display_image"}, {"display_image"}),
  S(96, 104, "block", "", "", "", FALSE, {"CONN_GRP", "GEOM", "MSH", "MY_TOTAL_MA", "MY_TOTAL_VOL", "NS_GRP"}, {"<api>"}, {}),
  S(107, 107, "add_analysis", "TopologyOptimization", "", "TOPO_OPT", FALSE, {"TOPO_OPT"}, {"<api>"}, {}),
  S(108, 108, "transfer", "Model.Analyses[0]", "Model.AddTopologyOptimizationAnalysis()@107", "", FALSE, {}, {"STRUCT", "TOPO_OPT"}, {}),
  S(109, 109, "assert", "str(TOPO_OPT.ObjectState) == 'NotSolved'", "", "", FALSE, {}, {"TOPO_OPT"}, {}),
  S(113, 144, "block", "", "", "", FALSE, {"Coordinate_Systems", "MASS_CONSTRN", "MEM_SIZE_MFG_CONSTRN", "OPT_REG", "SYMM_MFG_CONSTRN", "TOPO_OPT_SLN", "VOL_CONSTRN", "coord_sys7"}, {"<api>", "TOPO_OPT"}, {}),
  S(145, 145, "solve", "TopologyOptimization", "Model.AddTopologyOptimizationAnalysis()@107.Solution", "", TRUE, {}, {"TOPO_OPT_SLN"}, {}),
  S(146, 146, "assert_status", "", "Model.AddTopologyOptimizationAnalysis()@107.Solution", "", FALSE, {}, {"TOPO_OPT_SLN"}, {}),
  S(152, 161, "block", "", "", "", FALSE, {"TOPO_DENS"}, {"<api>", "TOPO_OPT", "TOPO_OPT_SLN"}, {}),
  S(162, 164, "export", "topo_opitimized_smooth.png", "", "", FALSE, {}, {"<api>", "cwd", "image_export_format", "os", "settings_720p"}, {}),
  S(165, 165, "call", "", "", "", FALSE, {}, {"display_image"}, {"display_image"}),
  S(172, 181, "block", "", "", "", FALSE, {}, {"TOPO_DENS"}, {}),
  S(184, 184, "save", "cantilever_topology_optimization.mechdat", "", "", FALSE, {}, {"app", "cwd", "os"}, {}),
  S(185, 185, "new", "", "", "", FALSE, {}, {"app"}, {}),
  S(188, 188, "delete_downloads", "", "", "", FALSE, {}, {"delete_downloads"}, {})
  >>

\* src/examples/basic/topology_optimization_cantilever_beam.py: the helper functions the script defines, each with the
\* global names its body reads (free) and the helpers it references (calls).
basic_topology_optimization_cantilever_beam_defs ==
  [display_image |-> [free |-> {"cwd", "mpimg", "os", "plt"}, calls |-> {}],
   write_file_contents_to_console |-> [free |-> {}, calls |-> {}],
   print_tree |-> [free |-> {"print_tree"}, calls |-> {"print_tree"}]]

\* src/examples/basic/topology_optimization_cantilever_beam.py: the script's top-level statements in execution order.
basic_topology_optimization_cantilever_beam ==
  <<
  S(15, 20, "import", "", "", "", FALSE, {"delete_downloads", "download_file", "mech", "mpimg", "os", "plt"}, {}, {}),
  S(25, 25, "App", "plain", "", "", FALSE, {"app"}, {"mech"}, {}),
  S(26, 26, "update_globals", "", "", "", FALSE, {}, {"app"}, {}),
  S(27, 27, "block", "", "", "", FALSE, {}, {"app"}, {}),
  S(30, 36, "def", "display_image", "", "", FALSE, {"display_image"}, {}, {}),
  S(39, 51, "block", "", "", "", FALSE, {"cwd", "image_export_format", "settings_720p"}, {"<api>", "os"}, {}),
  S(58, 60, "download", "pymechanical/embedding/cantilever.mechdat", "", "structural_mechdat_file", FALSE, {"structural_mechdat_file"}, {"download_file"}, {}),
  S(61, 61, "open", "pymechanical/embedding/cantilever.mechdat", "", "", FALSE, {}, {"app", "structural_mechdat_file"}, {}),
  S(62, 62, "analysis_ref", "0", "", "", FALSE, {"STRUCT"}, {"<api>"}, {}),
  S(65, 65, "assert", "str(STRUCT.ObjectState) == 'Solved'", "", "", FALSE, {}, {"STRUCT"}, {}),
  S(67, 67, "block", "", "", "", FALSE, {"STRUCT_SLN"}, {"STRUCT"}, {}),
  S(68, 68, "solve", "", "Model.Analyses[0].Solution", "", TRUE, {}, {"STRUCT_SLN"}, {}),
  S(70, 70, "assert_status", "", "Model.Analyses[0].Solution", "", FALSE, {}, {"STRUCT_SLN"}, {}),
  S(78, 79, "block", "", "", "", FALSE, {}, {"<api>", "STRUCT_SLN"}, {}),
  S(80, 82, "export", "total_deformation.png", "", "", FALSE, {}, {"<api>", "cwd", "image_export_format", "os", "settings_720p"}, {}),
  S(83, 83, "call", "", "", "", FALSE, {}, {"display_image"}, {"display_image"}),
  S(88, 89, "block", "", "", "", FALSE, {}, {"<api>", "STRUCT_SLN"}, {}),
  S(90, 92, "export", "equivalent_stress.png", "", "", FALSE, {}, {"<api>", "cwd", "image_export_format", "os", "settings_720p"}, {}),
  S(93, 93, "call", "", "", "", FALSE, {}, {"display_image"}, {"display_image"}),
  S(101, 110, "block", "", "", "", FALSE, {"CONN_GRP", "GEOM", "MSH", "MY_TOTAL_MA", "MY_TOTAL_VOL", "NS_GRP"}, {"<api>"}, {}),
  S(114, 114, "add_analysis", "TopologyOptimization", "", "TOPO_OPT", FALSE, {"TOPO_OPT"}, {"<api>"}, {}),
  S(115, 115, "transfer", "Model.Analyses[0]", "Model.AddTopologyOptimizationAnalysis()@114", "", FALSE, {}, {"STRUCT", "TOPO_OPT"}, {}),
  S(118, 118, "assert", "str(TOPO_OPT.ObjectState) == 'NotSolved'", "", "", FALSE, {}, {"TOPO_OPT"}, {}),
  S(124, 156, "block", "", "", "", FALSE, {"MASS_CONSTRN", "MEM_SIZE_MFG_CONSTRN", "OPT_REG", "VOL_CONSTRN"}, {"<api>", "TOPO_OPT"}, {}),
  S(157, 159, "export", "boundary_conditions.png", "", "", FALSE, {}, {"<api>", "cwd", "image_export_format", "os", "settings_720p"}, {}),
  S(160, 160, "call", "", "", "", FALSE, {}, {"display_image"}, {"display_image"}),
  S(166, 166, "block", "", "", "", FALSE, {"TOPO_OPT_SLN"}, {"TOPO_OPT"}, {}),
  S(167, 167, "solve", "TopologyOptimization", "Model.AddTopologyOptimizationAnalysis()@114.Solution", "", TRUE, {}, {"TOPO_OPT_SLN"}, {}),
  S(169, 169, "assert_status", "", "Model.AddTopologyOptimizationAnalysis()@114.Solution", "", FALSE, {}, {"TOPO_OPT_SLN"}, {}),
  S(176, 196, "block", "", "", "", FALSE, {"Messages", "TOPO_DENS", "message"}, {"<api>", "TOPO_OPT", "TOPO_OPT_SLN"}, {}),
  S(197, 199, "export", "topo_opitimized_smooth.png", "", "", FALSE, {}, {"<api>", "cwd", "image_export_format", "os", "settings_720p"}, {}),
  S(200, 200, "call", "", "", "", FALSE, {}, {"display_image"}, {"display_image"}),
  S(205, 210, "block", "", "", "", FALSE, {"animation_export_format", "settings_720p"}, {"<api>"}, {}),
  S(212, 214, "export", "Topo_opitimized.gif", "", "", FALSE, {}, {"TOPO_DENS", "animation_export_format", "cwd", "os", "settings_720p"}, {}),
  S(223, 232, "block", "", "", "", FALSE, {}, {"TOPO_DENS"}, {}),
  S(239, 243, "def", "write_file_contents_to_console", "", "", FALSE, {"write_file_contents_to_console"}, {}, {}),
  S(246, 247, "block", "", "", "", FALSE, {"solve_out_path", "solve_path"}, {"TOPO_OPT", "os"}, {}),
  S(248, 249, "show_solve_out", "solve.out", "", "", FALSE, {}, {"solve_out_path", "write_file_contents_to_console"}, {"write_file_contents_to_console"}),
  S(256, 265, "def", "print_tree", "", "", FALSE, {"print_tree"}, {}, {}),
  S(268, 268, "block", "", "", "", FALSE, {"root_node"}, {"<api>"}, {}),
  S(269, 269, "call", "", "", "", FALSE, {}, {"print_tree", "root_node"}, {"print_tree"}),
  S(276, 276, "save", "cantilever_beam_topology_optimization.mechdat", "", "", FALSE, {}, {"app", "cwd", "os"}, {}),
  S(277, 277, "new", "", "", "", FALSE, {}, {"app"}, {}),
  S(282, 282, "delete_downloads", "", "", "", FALSE, {}, {"delete_downloads"}, {})
  >>

\* src/examples/basic/valve.py: the helper functions the script defines, each with the
\* global names its body reads (free) and the helpers it references (calls).
basic_valve_defs ==
  [display_image |-> [free |-> {"cwd", "mpimg", "os", "plt"}, calls |-> {}],
   update |-> [free |-> {"gif", "img"}, calls |-> {}],
   write_file_contents_to_console |-> [free |-> {}, calls |-> {}]]

\* src/examples/basic/valve.py: the script's top-level statements in execution order.
basic_valve ==
  <<
  S(13, 20, "import", "", "", "", FALSE, {"FuncAnimation", "Image", "delete_downloads", "download_file", "mech", "mpimg", "os", "plt"}, {}, {}),
  S(25, 25, "App", "plain", "", "", FALSE, {"app"}, {"mech"}, {}),
  S(26, 26, "update_globals", "", "", "", FALSE, {}, {"app"}, {}),
  S(27, 29, "block", "", "", "", FALSE, {"cwd"}, {"app", "os"}, {}),
  S(32, 38, "def", "display_image", "", "", FALSE, {"display_image"}, {}, {}),
  S(45, 52, "block", "", "", "", FALSE, {"image_export_format", "settings_720p"}, {"<api>"}, {}),
  S(60, 60, "download", "pymechanical/embedding/Valve.pmdb", "", "geometry_path", FALSE, {"geometry_path"}, {"download_file"}, {}),
  S(65, 70, "block", "", "", "", FALSE, {"geometry_import", "geometry_import_format", "geometry_import_preferences"}, {"<api>"}, {}),
  S(71, 73, "read_fixture", "pymechanical/embedding/Valve.pmdb", "", "", FALSE, {}, {"geometry_import", "geometry_import_format", "geometry_import_preferences", "geometry_path"}, {}),
  S(75, 99, "block", "", "", "", FALSE, {"material_assignment", "mesh", "sel"}, {"<api>", "app"}, {}),
  S(100, 100, "export", "mesh.png", "", "", FALSE, {}, {"<api>", "cwd", "image_export_format", "os", "settings_720p"}, {}),
  S(101, 101, "call", "", "", "", FALSE, {}, {"display_image"}, {"display_image"}),
  S(107, 107, "add_analysis", "StaticStructural", "", "analysis", FALSE, {"analysis"}, {"<api>"}, {}),
  S(109, 118, "block", "", "", "", FALSE, {"fixed_support", "frictionless_support", "pressure"}, {"<api>", "analysis"}, {}),
  S(120, 120, "set_load", "", "pressure.Magnitude.Inputs[0]", "[Quantity('0 [s]'), Quantity('1 [s]')]", FALSE, {}, {"<api>", "pressure"}, {}),
  S(121, 121, "set_load", "", "pressure.Magnitude.Output", "[Quantity('0 [Pa]'), Quantity('15 [MPa]')]", FALSE, {}, {"<api>", "pressure"}, {}),
  S(123, 124, "block", "", "", "", FALSE, {}, {"<api>", "analysis"}, {}),
  S(125, 127, "export", "boundary_conditions.png", "", "", FALSE, {}, {"<api>", "cwd", "image_export_format", "os", "settings_720p"}, {}),
  S(128, 128, "call", "", "", "", FALSE, {}, {"display_image"}, {"display_image"}),
  S(135, 135, "block", "", "", "", FALSE, {"config"}, {"<api>"}, {}),
  S(136, 136, "set_solve_config", "MaxNumberOfCores", "", "1", FALSE, {}, {"config"}, {}),
  S(137, 137, "set_solve_config", "DistributeSolution", "", "False", FALSE, {}, {"config"}, {}),
  S(142, 144, "block", "", "", "", FALSE, {"deformation", "solution", "stress"}, {"analysis"}, {}),
  S(149, 149, "solve", "", "Model.AddStaticStructuralAnalysis()@107.Solution", "", TRUE, {}, {"solution"}, {}),
  S(152, 152, "assert_status", "", "Model.AddStaticStructuralAnalysis()@107.Solution", "", FALSE, {}, {"solution"}, {}),
  S(159, 164, "block", "", "", "", FALSE, {"Messages", "message"}, {"<api>"}, {}),
  S(171, 177, "def", "display_image", "", "", FALSE, {"display_image"}, {}, {}),
  S(183, 183, "block", "", "", "", FALSE, {}, {"<api>", "deformation"}, {}),
  S(184, 186, "export", "totaldeformation_valve.png", "", "", FALSE, {}, {"<api>", "cwd", "image_export_format", "os", "settings_720p"}, {}),
  S(187, 187, "call", "", "", "", FALSE, {}, {"display_image"}, {"display_image"}),
  S(192, 192, "block", "", "", "", FALSE, {}, {"<api>", "stress"}, {}),
  S(193, 195, "export", "stress_valve.png", "", "", FALSE, {}, {"<api>", "cwd", "image_export_format", "os", "settings_720p"}, {}),
  S(196, 196, "call", "", "", "", FALSE, {}, {"display_image"}, {"display_image"}),
  S(201, 206, "block", "", "", "", FALSE, {"animation_export_format", "settings_720p"}, {"<api>"}, {}),
  S(208, 210, "export", "Valve.gif", "", "", FALSE, {}, {"animation_export_format", "cwd", "os", "settings_720p", "stress"}, {}),
  S(211, 214, "block", "", "", "", FALSE, {"ax", "fig", "gif", "img"}, {"Image", "cwd", "os", "plt"}, {}),
  S(217, 220, "def", "update", "", "", FALSE, {"update"}, {}, {}),
  S(223, 225, "call", "", "", "", FALSE, {"ani"}, {"FuncAnimation", "fig", "gif", "update"}, {"update"}),
  S(226, 226, "block", "", "", "", FALSE, {}, {"plt"}, {}),
  S(233, 237, "def", "write_file_contents_to_console", "", "", FALSE, {"write_file_contents_to_console"}, {}, {}),
  S(240, 241, "block", "", "", "", FALSE, {"solve_out_path", "solve_path"}, {"analysis", "os"}, {}),
  S(242, 243, "show_solve_out", "solve.out", "", "", FALSE, {}, {"solve_out_path", "write_file_contents_to_console"}, {"write_file_contents_to_console"}),
  S(249, 249, "block", "", "", "", FALSE, {}, {"app"}, {}),
  S(256, 256, "save", "Valve.mechdat", "", "", FALSE, {}, {"app", "cwd", "os"}, {}),
  S(257, 257, "new", "", "", "", FALSE, {}, {"app"}, {}),
  S(262, 262, "delete_downloads", "", "", "", FALSE, {}, {"delete_downloads"}, {})
  >>

\* src/examples/technology_showcase/topology_optimization_cantilever.py: the helper functions the script defines, each with the
\* global names its body reads (free) and the helpers it references (calls).
showcase_topology_optimization_cantilever_defs ==
  [display_image |-> [free |-> {"cwd", "mpimg", "os", "plt"}, calls |-> {}]]

\* src/examples/technology_showcase/topology_optimization_cantilever.py: the script's top-level statements in execution order.
showcase_topology_optimization_cantilever ==
  <<
  S(2, 7, "import", "", "", "", FALSE, {"delete_downloads", "download_file", "mech", "mpimg", "os", "plt"}, {}, {}),
  S(9, 9, "App", "plain", "", "", FALSE, {"app"}, {"mech"}, {}),
  S(10, 10, "global_variables", "plain", "", "", FALSE, {}, {"app", "mech"}, {}),
  S(11, 11, "block", "", "", "", FALSE, {}, {"app"}, {}),
  S(12, 16, "import", "*", "", "", FALSE, {}, {}, {}),
  S(18, 18, "block", "", "", "", FALSE, {"cwd"}, {"os"}, {}),
  S(19, 25, "def", "display_image", "", "", FALSE, {"display_image"}, {}, {}),
  S(27, 27, "download", "pymechanical/embedding/cantilever.mechdat", "", "structural_mechdat_file", FALSE, {"structural_mechdat_file"}, {"download_file"}, {}),
  S(28, 28, "open", "pymechanical/embedding/cantilever.mechdat", "", "", FALSE, {}, {"app", "structural_mechdat_file"}, {}),
  S(29, 29, "analysis_ref", "0", "", "", FALSE, {"structural_analysis"}, {"<api>"}, {}),
  S(30, 30, "block", "", "", "", FALSE, {"STRUCT_ID"}, {"structural_analysis"}, {}),
  S(31, 31, "solve", "", "Model.Analyses[0]", "", FALSE, {}, {"structural_analysis"}, {}),
  S(36, 54, "block", "", "", "", FALSE, {"image_export_format", "settings_720p", "structural_solution"}, {"<api>", "structural_analysis"}, {}),
  S(55, 57, "export", "total_deformation.png", "", "", FALSE, {}, {"<api>", "cwd", "image_export_format", "os", "settings_720p"}, {}),
  S(59, 60, "block", "", "", "", FALSE, {}, {"<api>", "structural_solution"}, {}),
  S(61, 63, "export", "equivalent_stress.png", "", "", FALSE, {}, {"<api>", "cwd", "image_export_format", "os", "settings_720p"}, {}),
  S(64, 64, "call", "", "", "", FALSE, {}, {"display_image"}, {"display_image"}),
  S(69, 79, "block", "", "", "", FALSE, {"CONN_GRP", "GEOM", "MSH", "MY_TOTAL_MA", "MY_TOTAL_VOL", "NS_GRP"}, {"<api>"}, {}),
  S(81, 81, "add_analysis", "TopologyOptimization", "", "TOPO_OPT", FALSE, {"TOPO_OPT"}, {"<api>"}, {}),
  S(82, 82, "transfer", "Model.Analyses[0]", "Model.AddTopologyOptimizationAnalysis()@81", "", FALSE, {}, {"TOPO_OPT", "structural_analysis"}, {}),
  S(86, 118, "block", "", "", "", FALSE, {"Coordinate_Systems", "MASS_CONSTRN", "MEM_SIZE_MFG_CONSTRN", "OPT_REG", "SYMM_MFG_CONSTRN", "SYMM_MFG_CONSTRN_axis", "VOL_CONSTRN", "coord_sys7"}, {"<api>", "TOPO_OPT"}, {}),
  S(121, 121, "solve", "TopologyOptimization", "Model.AddTopologyOptimizationAnalysis()@81.Solution", "", TRUE, {}, {"TOPO_OPT"}, {}),
  S(124, 130, "block", "", "", "", FALSE, {"TOPO_DENS"}, {"<api>", "TOPO_OPT"}, {}),
  S(131, 133, "export", "topo_opitimized_smooth.png", "", "", FALSE, {}, {"<api>", "cwd", "image_export_format", "os", "settings_720p"}, {}),
  S(134, 134, "call", "", "", "", FALSE, {}, {"display_image"}, {"display_image"}),
  S(137, 151, "block", "", "", "", FALSE, {"TOPO_DENS_fm", "TOPO_DENS_fv", "TOPO_DENS_itrn", "TOPO_DENS_max", "TOPO_DENS_min", "TOPO_DENS_om", "TOPO_DENS_ov", "TOPO_DENS_pmo", "TOPO_DENS_pvo"}, {"TOPO_DENS"}, {}),
  S(154, 154, "save", "cantilever_topology_optimization.mechdat", "", "", FALSE, {}, {"app", "os"}, {}),
  S(155, 155, "new", "", "", "", FALSE, {}, {"app"}, {}),
  S(158, 158, "delete_downloads", "", "", "", FALSE, {}, {"delete_downloads"}, {})
  >>

\* The example scripts of the gallery, by path under src/examples.
ScriptNames ==
  {"00_tips/tips_01.py",
   "00_tips/tips_02.py",
   "00_tips/tips_03.py",
   "00_tips/tips_04.py",
   "00_tips/tips_05.py",
   "01_basic/harmonic_acoustics.py",
   "01_basic/modal_acoustics_analysis.py",
   "01_basic/steady_state_thermal_analysis.py",
   "01_basic/topology_optimization_cantilever_beam.py",
   "01_basic/valve.py",
   "02_technology_showcase/Rotor_Blade_Inverse_solve.py",
   "02_technology_showcase/conact_wear_simulation.py",
   "02_technology_showcase/contact_wear_simulation.py",
   "02_technology_showcase/non_linear_analsis_rubber_boot_seal.py",
   "02_technology_showcase/prestressed_modal_cyclic_symmetry_analysis.py",
   "02_technology_showcase/shape_optimization_bracket_model.py",
   "basic/LSDyna_analysis.py",
   "basic/bolt_pretension.py",
   "basic/contact_debonding.py",
   "basic/fracture_analysis_contact_debonding.py",
   "basic/modal_acoustics.py",
   "basic/steady_state_thermal_analysis.py",
   "basic/topology_optimization_cantilever.py",
   "basic/topology_optimization_cantilever_beam.py",
   "basic/valve.py",
   "technology_showcase/topology_optimization_cantilever.py"}

\* The scripts of the 00_tips directory.
TipsScripts ==
  {"00_tips/tips_01.py", "00_tips/tips_02.py", "00_tips/tips_03.py", "00_tips/tips_04.py", "00_tips/tips_05.py"}

\* Running a script executes its top-level statements from the first to the last.
StepsOf(s) ==
  CASE s = "00_tips/tips_01.py" -> tips_01
    [] s = "00_tips/tips_02.py" -> tips_02
    [] s = "00_tips/tips_03.py" -> tips_03
    [] s = "00_tips/tips_04.py" -> tips_04
    [] s = "00_tips/tips_05.py" -> tips_05
    [] s = "01_basic/harmonic_acoustics.py" -> basic01_harmonic_acoustics
    [] s = "01_basic/modal_acoustics_analysis.py" -> basic01_modal_acoustics_analysis
    [] s = "01_basic/steady_state_thermal_analysis.py" -> basic01_steady_state_thermal_analysis
    [] s = "01_basic/topology_optimization_cantilever_beam.py" -> basic01_topology_optimization_cantilever_beam
    [] s = "01_basic/valve.py" -> basic01_valve
    [] s = "02_technology_showcase/Rotor_Blade_Inverse_solve.py" -> showcase02_Rotor_Blade_Inverse_solve
    [] s = "02_technology_showcase/conact_wear_simulation.py" -> showcase02_conact_wear_simulation
    [] s = "02_technology_showcase/contact_wear_simulation.py" -> showcase02_contact_wear_simulation
    [] s = "02_technology_showcase/non_linear_analsis_rubber_boot_seal.py" -> showcase02_non_linear_analsis_rubber_boot_seal
    [] s = "02_technology_showcase/prestressed_modal_cyclic_symmetry_analysis.py" -> showcase02_prestressed_modal_cyclic_symmetry_analysis
    [] s = "02_technology_showcase/shape_optimization_bracket_model.py" -> showcase02_shape_optimization_bracket_model
    [] s = "basic/LSDyna_analysis.py" -> basic_LSDyna_analysis
    [] s = "basic/bolt_pretension.py" -> basic_bolt_pretension
    [] s = "basic/contact_debonding.py" -> basic_contact_debonding
    [] s = "basic/fracture_analysis_contact_debonding.py" -> basic_fracture_analysis_contact_debonding
    [] s = "basic/modal_acoustics.py" -> basic_modal_acoustics
    [] s = "basic/steady_state_thermal_analysis.py" -> basic_steady_state_thermal_analysis
    [] s = "basic/topology_optimization_cantilever.py" -> basic_topology_optimization_cantilever
    [] s = "basic/topology_optimization_cantilever_beam.py" -> basic_topology_optimization_cantilever_beam
    [] s = "basic/valve.py" -> basic_valve
    [] s = "technology_showcase/topology_optimization_cantilever.py" -> showcase_topology_optimization_cantilever

\* The helper functions a script defines.
DefsOf(s) ==
  CASE s = "00_tips/tips_01.py" -> tips_01_defs
    [] s = "00_tips/tips_02.py" -> tips_02_defs
    [] s = "00_tips/tips_03.py" -> tips_03_defs
    [] s = "00_tips/tips_04.py" -> tips_04_defs
    [] s = "00_tips/tips_05.py" -> tips_05_defs
    [] s = "01_basic/harmonic_acoustics.py" -> basic01_harmonic_acoustics_defs
    [] s = "01_basic/modal_acoustics_analysis.py" -> basic01_modal_acoustics_analysis_defs
    [] s = "01_basic/steady_state_thermal_analysis.py" -> basic01_steady_state_thermal_analysis_defs
    [] s = "01_basic/topology_optimization_cantilever_beam.py" -> basic01_topology_optimization_cantilever_beam_defs
    [] s = "01_basic/valve.py" -> basic01_valve_defs
    [] s = "02_technology_showcase/Rotor_Blade_Inverse_solve.py" -> showcase02_Rotor_Blade_Inverse_solve_defs
    [] s = "02_technology_showcase/conact_wear_simulation.py" -> showcase02_conact_wear_simulation_defs
    [] s = "02_technology_showcase/contact_wear_simulation.py" -> showcase02_contact_wear_simulation_defs
    [] s = "02_technology_showcase/non_linear_analsis_rubber_boot_seal.py" -> showcase02_non_linear_analsis_rubber_boot_seal_defs
    [] s = "02_technology_showcase/prestressed_modal_cyclic_symmetry_analysis.py" -> showcase02_prestressed_modal_cyclic_symmetry_analysis_defs
    [] s = "02_technology_showcase/shape_optimization_bracket_model.py" -> showcase02_shape_optimization_bracket_model_defs
    [] s = "basic/LSDyna_analysis.py" -> basic_LSDyna_analysis_defs
    [] s = "basic/bolt_pretension.py" -> basic_bolt_pretension_defs
    [] s = "basic/contact_debonding.py" -> basic_contact_debonding_defs
    [] s = "basic/fracture_analysis_contact_debonding.py" -> basic_fracture_analysis_contact_debonding_defs
    [] s = "basic/modal_acoustics.py" -> basic_modal_acoustics_defs
    [] s = "basic/steady_state_thermal_analysis.py" -> basic_steady_state_thermal_analysis_defs
    [] s = "basic/topology_optimization_cantilever.py" -> basic_topology_optimization_cantilever_defs
    [] s = "basic/topology_optimization_cantilever_beam.py" -> basic_topology_optimization_cantilever_beam_defs
    [] s = "basic/valve.py" -> basic_valve_defs
    [] s = "technology_showcase/topology_optimization_cantilever.py" -> showcase_topology_optimization_cantilever_defs

\* The Archard wear table of a script's command snippet: for each TBFIELD,TIME
\* line the time in hundredths of a second, with the first constant (the wear coefficient) of the TBDATA
\* line that follows it.
WearTable(s) ==
  CASE s = "02_technology_showcase/conact_wear_simulation.py" ->
         <<[time |-> 0, coefficient |-> "0"],
           [time |-> 100, coefficient |-> "0"],
           [time |-> 101, coefficient |-> "kcopper"],
           [time |-> 400, coefficient |-> "kcopper"]>>
    [] s = "02_technology_showcase/contact_wear_simulation.py" ->
         <<[time |-> 0, coefficient |-> "0"],
           [time |-> 100, coefficient |-> "0"],
           [time |-> 101, coefficient |-> "kcopper"],
           [time |-> 400, coefficient |-> "kcopper"]>>
    [] OTHER -> <<>>
---------------------------------------------------------------------------
VARIABLES
  script,             \* the script this run executes
  pc,                 \* index of the next statement
  outcome,            \* "running", "finished" (ran past its last statement) or "failed"
  error,              \* the exception that ended a failed run
  bound,              \* the names bound in the script's global namespace
  app,                \* "none", "fresh", "loaded" or "closed"
  appFiles,           \* the fixtures the application's model was built or opened from
  solveLog,           \* the solves made so far: step, object, status on return
  statVar,            \* the value of each status variable
  cache,              \* the fixture files present in the local cache
  downloaded,         \* the fixture files this process downloaded
  log,                \* the save / save_as / new / close / delete_downloads calls made
  cleanupWhileLoaded, \* whether delete_downloads ran while the app held a fixture's model
  written,            \* the output files written, in order
  results,            \* the normal-stress results added to the solution, with their properties
  analyses,           \* the analyses the script has added to the model, in order of addition
  twoApps,            \* whether an App was constructed while another instance existed in the process
  envGithub,          \* whether PYMECHANICAL_BUILDING_GALLERY_GITHUB is set for the build
  confApp,            \* whether conf.py constructed an App (held by its global `app`)
  solveConfig,        \* the solve process settings of the "My Computer" configuration
  queue,              \* the examples the documentation build has still to run
  peer,               \* a script running in another process on the same cache, or "none"
  peerPc,             \* the peer's position among its cache operations
  peerDownloaded,     \* the fixture files the peer process downloaded
  project,            \* the project tree handed to print_tree
  frames,             \* the active calls of print_tree, outermost first
  output,             \* the lines print_tree has printed, in order
  stepSettings,       \* the load steps of the analysis settings: number, current step, end times
  wear,               \* the wear table handed to the contact region's command snippet
  loads,              \* the tabular load values assigned, in order
  created,            \* the results added to the solution, in order of creation
  named,              \* the name the script gave to each object it named
  lastLookup,         \* the lookup by name evaluated last: name, index taken, objects matched
  reference,          \* the summary of the run made before this one, if one was kept
  program             \* the script as loaded: its statements and its helper definitions

vars == <<script, pc, outcome, error, bound, app, appFiles, solveLog, statVar,
          cache, downloaded, log, cleanupWhileLoaded, written, results, analyses,
          twoApps, envGithub, confApp, solveConfig, queue, peer, peerPc,
          peerDownloaded, project, frames, output, stepSettings, wear, loads,
          created, named, lastLookup, reference, program>>

\* What the script has built in the application's model tree.
treeVars == <<results, analyses>>

\* What the documentation build sets up before and between examples.
buildVars == <<envGithub, confApp, solveConfig, queue>>

\* The process running next to this one.
peerVars == <<peer, peerPc, peerDownloaded>>

\* The call of print_tree in progress.
printVars == <<project, frames, output>>

\* What the script has set up in the analysis besides results and analyses,
\* and the run kept for comparison.
setupVars == <<stepSettings, wear, loads, created, named, lastLookup, reference>>

\* A script as the interpreter loads it: its top-level statements in order and
\* the helper functions it defines.
Program(s) == [steps |-> StepsOf(s), defs |-> DefsOf(s)]

Steps == program.steps

NSteps == Len(Steps)

Range(f) == {f[i] : i \in DOMAIN f}

\* The fixtures a script requests.
Fixtures(s) == {st.arg : st \in {x \in Range(StepsOf(s)) : x.op = "download"}}

\* The variables a script assigns a solution status to.
StatusVars(s) == {st.var : st \in {x \in Range(StepsOf(s)) : x.op = "read_status"}}

\* The status a solve can have ended with when the call returns.  Only "Done"
\* is named by the scripts; "Failed" stands for a solve that ended in error,
\* "SolveRequired" for a solution that is still not solved.
SolveOutcomes == {"Done", "Failed", "SolveRequired"}

\* The helpers reachable from a set of helper names through references.
RECURSIVE Reach(_, _)
Reach(defs, fs) ==
  LET next == fs \cup UNION {defs[f].calls : f \in fs}
  IN  IF next = fs THEN fs ELSE Reach(defs, next)

\* The names a step reads when it executes: its own, and the global names read
\* by the body of every helper it calls.
Uses(st) ==
  st.uses \cup UNION {program.defs[f].free : f \in Reach(program.defs, st.calls)}

\* The current status of a solution object: that of its latest solve.
RECURSIVE LatestStatus(_, _)
LatestStatus(lg, obj) ==
  IF lg = <<>> THEN "SolveRequired"
  ELSE IF lg[Len(lg)].obj = obj THEN lg[Len(lg)].status
       ELSE LatestStatus(SubSeq(lg, 1, Len(lg) - 1), obj)

\* An assertion on a status passes exactly when the value it inspects is Done
\* (str(x) == "Done" and x == SolutionStatusType.Done alike).
StatusIsDone(v) == v = "Done"

\* The value a status assertion inspects: a status variable read earlier, or
\* the Status property of a solution object read in the assertion itself.
Inspected(st) ==
  IF st.var # "" THEN statVar[st.var] ELSE LatestStatus(solveLog, st.obj)

\* No result has been added to the solution yet.
NoResults == [v \in {} |-> <<>>]

\* A result as the Add call returns it: every property at the product default.
NewResult ==
  [NormalOrientation |-> "default", DisplayTime |-> "default", DisplayOption |-> "default"]

\* The solve process settings as the product ships them.
ProductSettings ==
  [MaxNumberOfCores |-> "default", DistributeSolution |-> "default"]

\* The analysis settings as the script finds them: the number of steps and the
\* current step it has not assigned are 0, no end time is assigned.
NoStepSettings ==
  [NumberOfSteps |-> 0, CurrentStepNumber |-> 0, StepEndTime |-> [k \in {} |-> 0]]

\* The script has named no object.
NoNames == [v \in {} |-> ""]

\* No lookup by name has been evaluated.
NoLookup == [name |-> "", index |-> 0, matches |-> 0]

\* No project tree: print_tree has not been called.
NoProject == [n |-> 0, parent |-> <<>>, leaf |-> "empty", suppressed |-> {}]

Init ==
  /\ script \in ScriptNames
  /\ program = Program(script)
  /\ pc = 1
  /\ outcome = "running"
  /\ error = ""
  /\ bound = {}
  /\ app = "none"
  /\ appFiles = {}
  /\ solveLog = <<>>
  /\ statVar = [v \in StatusVars(script) |-> "unset"]
  /\ cache \in SUBSET Fixtures(script)
  /\ downloaded = {}
  /\ log = <<>>
  /\ cleanupWhileLoaded = FALSE
  /\ written = <<>>
  /\ results = NoResults
  /\ analyses = <<>>
  /\ twoApps = FALSE
  /\ envGithub = FALSE
  /\ confApp = FALSE
  /\ solveConfig = ProductSettings
  /\ queue = <<>>
  /\ peer = "none"
  /\ peerPc = 0
  /\ peerDownloaded = {}
  /\ project = NoProject
  /\ frames = <<>>
  /\ output = <<>>
  /\ stepSettings = NoStepSettings
  /\ wear = <<>>
  /\ loads = <<>>
  /\ created = <<>>
  /\ named = NoNames
  /\ lastLookup = NoLookup
  /\ reference = <<>>

\* The next statement is an `op` and every name it reads is bound.
Ready(op) ==
  /\ outcome = "running"
  /\ Steps[pc].op = op
  /\ Uses(Steps[pc]) \subseteq bound

\* The statement completes: its names are bound and control moves on.
Completes(extra) ==
  /\ pc' = pc + 1
  /\ outcome' = IF pc + 1 > NSteps THEN "finished" ELSE "running"
  /\ error' = error
  /\ bound' = bound \cup Steps[pc].defs \cup extra

\* A raise as it would be if the script caught the exception and went on
\* with its next statement.
RaiseCaught(e) ==
  /\ pc' = pc + 1
  /\ outcome' = IF pc + 1 > NSteps THEN "finished" ELSE "running"
  /\ error' = e
  /\ bound' = bound

\* The statement raises: nothing catches it and the run ends there.
Raise(e) ==
  /\ pc' = pc
  /\ outcome' = "failed"
  /\ error' = e
  /\ bound' = bound

\* A statement that reads a name nothing has bound raises NameError.
NameError ==
  /\ outcome = "running"
  /\ ~ (Uses(Steps[pc]) \subseteq bound)
  /\ Raise("NameError")
  /\ UNCHANGED <<script, program, twoApps, treeVars, buildVars, peerVars, printVars, setupVars,
                 app, appFiles, solveLog, statVar, cache, downloaded,
                 log, cleanupWhileLoaded, written>>

Import ==
  /\ Ready("import")
  /\ Completes({})
  /\ UNCHANGED <<script, program, twoApps, treeVars, buildVars, peerVars, printVars, setupVars,
                 app, appFiles, solveLog, statVar, cache, downloaded,
                 log, cleanupWhileLoaded, written>>

Def ==
  /\ Ready("def")
  /\ Completes({})
  /\ UNCHANGED <<script, program, twoApps, treeVars, buildVars, peerVars, printVars, setupVars,
                 app, appFiles, solveLog, statVar, cache, downloaded,
                 log, cleanupWhileLoaded, written>>

\* Plain statements.
Block ==
  /\ Ready("block")
  /\ Completes({})
  /\ UNCHANGED <<script, program, twoApps, treeVars, buildVars, peerVars, printVars, setupVars,
                 app, appFiles, solveLog, statVar, cache, downloaded,
                 log, cleanupWhileLoaded, written>>

\* A statement that calls (or hands over) a helper function of the script.
Call ==
  /\ Ready("call")
  /\ Completes({})
  /\ UNCHANGED <<script, program, twoApps, treeVars, buildVars, peerVars, printVars, setupVars,
                 app, appFiles, solveLog, statVar, cache, downloaded,
                 log, cleanupWhileLoaded, written>>

\* app = App(...): App(globals=globals()) also injects the API symbols.
\* Construction raises when no matching installation is found.
AppCtor ==
  /\ Ready("App")
  /\ \E ok \in BOOLEAN :
       IF ok
       THEN /\ Completes(IF Steps[pc].arg = "globals" THEN {ApiToken} ELSE {})
            /\ app' = "fresh"
            /\ twoApps' = (twoApps \/ confApp)
       ELSE /\ Raise("AppError")
            /\ app' = app
            /\ twoApps' = twoApps
  /\ UNCHANGED <<script, program, treeVars, buildVars, peerVars, printVars, setupVars,
                 appFiles, solveLog, statVar, cache, downloaded,
                 log, cleanupWhileLoaded, written>>

\* app.update_globals(globals())
UpdateGlobals ==
  /\ Ready("update_globals")
  /\ Completes({ApiToken})
  /\ UNCHANGED <<script, program, twoApps, treeVars, buildVars, peerVars, printVars, setupVars,
                 app, appFiles, solveLog, statVar, cache, downloaded,
                 log, cleanupWhileLoaded, written>>

\* globals().update(mech.global_variables(app[, True]))
GlobalVariables ==
  /\ Ready("global_variables")
  /\ Completes({ApiToken})
  /\ UNCHANGED <<script, program, twoApps, treeVars, buildVars, peerVars, printVars, setupVars,
                 app, appFiles, solveLog, statVar, cache, downloaded,
                 log, cleanupWhileLoaded, written>>

\* path = download_file(name, product, category): the file is fetched unless
\* it is cached already; a failed fetch raises.
Download ==
  /\ Ready("download")
  /\ LET f == Steps[pc].arg IN
     \E ok \in BOOLEAN :
       IF f \in cache
       THEN /\ ok
            /\ Completes({})
            /\ UNCHANGED <<cache, downloaded>>
       ELSE IF ok
            THEN /\ Completes({})
                 /\ cache' = cache \cup {f}
                 /\ downloaded' = downloaded \cup {f}
            ELSE /\ Raise("DownloadError")
                 /\ UNCHANGED <<cache, downloaded>>
  /\ UNCHANGED <<script, program, twoApps, treeVars, buildVars, peerVars, printVars, setupVars,
                 app, appFiles, solveLog, statVar, log,
                 cleanupWhileLoaded, written>>

\* A statement that hands a downloaded path to the application (geometry
\* import, material import, imported load data).
ReadFixture ==
  /\ Ready("read_fixture")
  /\ IF Steps[pc].arg \in cache
     THEN /\ Completes({})
          /\ app' = "loaded"
          /\ appFiles' = appFiles \cup {Steps[pc].arg}
     ELSE /\ Raise("FileNotFoundError")
          /\ UNCHANGED <<app, appFiles>>
  /\ UNCHANGED <<script, program, twoApps, treeVars, buildVars, peerVars, printVars, setupVars,
                 solveLog, statVar, cache, downloaded, log,
                 cleanupWhileLoaded, written>>

\* app.open(path)
Open ==
  /\ Ready("open")
  /\ IF Steps[pc].arg \in cache
     THEN /\ Completes({})
          /\ app' = "loaded"
          /\ appFiles' = {Steps[pc].arg}
     ELSE /\ Raise("FileNotFoundError")
          /\ UNCHANGED <<app, appFiles>>
  /\ UNCHANGED <<script, program, twoApps, treeVars, buildVars, peerVars, printVars, setupVars,
                 solveLog, statVar, cache, downloaded, log,
                 cleanupWhileLoaded, written>>

\* A Solve statement as it would be if it were commented out.
SolveCommentedOut ==
  /\ Ready("solve")
  /\ Completes({})
  /\ UNCHANGED <<script, program, twoApps, treeVars, buildVars, peerVars, printVars, setupVars,
                 app, appFiles, solveLog, statVar, cache, downloaded, log,
                 cleanupWhileLoaded, written>>

\* x.Solve(True) / x.Solve(): the call returns with the solution in the status
\* the solver left it in.
Solve ==
  /\ Ready("solve")
  /\ \E s \in SolveOutcomes :
       solveLog' = Append(solveLog, [step |-> pc, obj |-> Steps[pc].obj, status |-> s])
  /\ Completes({})
  /\ UNCHANGED <<script, program, twoApps, treeVars, buildVars, peerVars, printVars, setupVars,
                 app, appFiles, statVar, cache, downloaded, log,
                 cleanupWhileLoaded, written>>

\* v = x.Status
ReadStatus ==
  /\ Ready("read_status")
  /\ statVar' = [statVar EXCEPT ![Steps[pc].var] = LatestStatus(solveLog, Steps[pc].obj)]
  /\ Completes({})
  /\ UNCHANGED <<script, program, twoApps, treeVars, buildVars, peerVars, printVars, setupVars,
                 app, appFiles, solveLog, cache, downloaded, log,
                 cleanupWhileLoaded, written>>

\* assert str(v) == "Done" / assert x.Status == SolutionStatusType.Done
AssertStatus ==
  /\ Ready("assert_status")
  /\ IF StatusIsDone(Inspected(Steps[pc]))
     THEN Completes({})
     ELSE Raise("AssertionError")
  /\ UNCHANGED <<script, program, twoApps, treeVars, buildVars, peerVars, printVars, setupVars,
                 app, appFiles, solveLog, statVar, cache, downloaded,
                 log, cleanupWhileLoaded, written>>

\* assert on an object state (geometry import, analysis); the state is the
\* application's answer.
AssertState ==
  /\ Ready("assert")
  /\ \E ok \in BOOLEAN :
       IF ok THEN Completes({}) ELSE Raise("AssertionError")
  /\ UNCHANGED <<script, program, twoApps, treeVars, buildVars, peerVars, printVars, setupVars,
                 app, appFiles, solveLog, statVar, cache, downloaded,
                 log, cleanupWhileLoaded, written>>

\* Graphics.ExportImage / ExportAnimation, directly or through a helper.
Export ==
  /\ Ready("export")
  /\ Completes({})
  /\ written' = Append(written, Steps[pc].arg)
  /\ UNCHANGED <<script, program, twoApps, treeVars, buildVars, peerVars, printVars, setupVars,
                 app, appFiles, solveLog, statVar, cache, downloaded,
                 log, cleanupWhileLoaded>>

\* app.save(path)
Save ==
  /\ Ready("save")
  /\ Completes({})
  /\ written' = Append(written, Steps[pc].arg)
  /\ log' = Append(log, "save")
  /\ UNCHANGED <<script, program, twoApps, treeVars, buildVars, peerVars, printVars, setupVars,
                 app, appFiles, solveLog, statVar, cache, downloaded,
                 cleanupWhileLoaded>>

\* app.save_as(path, overwrite=True)
SaveAs ==
  /\ Ready("save_as")
  /\ Completes({})
  /\ written' = Append(written, Steps[pc].arg)
  /\ log' = Append(log, "save_as")
  /\ UNCHANGED <<script, program, twoApps, treeVars, buildVars, peerVars, printVars, setupVars,
                 app, appFiles, solveLog, statVar, cache, downloaded,
                 cleanupWhileLoaded>>

\* app.new() as it would be if it left the in-memory model in place.
NewKeepsModel ==
  /\ Ready("new")
  /\ Completes({})
  /\ log' = Append(log, "new")
  /\ UNCHANGED <<script, program, twoApps, treeVars, buildVars, peerVars, printVars, setupVars,
                 app, appFiles, solveLog, statVar, cache, downloaded,
                 cleanupWhileLoaded, written>>

\* app.new(): the in-memory model is reset.
New ==
  /\ Ready("new")
  /\ Completes({})
  /\ app' = "fresh"
  /\ appFiles' = {}
  /\ log' = Append(log, "new")
  /\ UNCHANGED <<script, program, twoApps, treeVars, buildVars, peerVars, printVars, setupVars,
                 solveLog, statVar, cache, downloaded,
                 cleanupWhileLoaded, written>>

\* app.close()
Close ==
  /\ Ready("close")
  /\ Completes({})
  /\ app' = "closed"
  /\ appFiles' = {}
  /\ log' = Append(log, "close")
  /\ UNCHANGED <<script, program, twoApps, treeVars, buildVars, peerVars, printVars, setupVars,
                 solveLog, statVar, cache, downloaded,
                 cleanupWhileLoaded, written>>

\* delete_downloads(): the files this process downloaded are removed from the
\* cache; a file that is no longer there is skipped.
DeleteDownloads ==
  /\ Ready("delete_downloads")
  /\ Completes({})
  /\ cache' = cache \ downloaded
  /\ cleanupWhileLoaded' = (cleanupWhileLoaded \/ appFiles # {})
  /\ log' = Append(log, "delete_downloads")
  /\ UNCHANGED <<script, program, twoApps, treeVars, buildVars, peerVars, printVars, setupVars,
                 app, appFiles, solveLog, statVar, downloaded, written>>

\* What a statement that only touches the model tree leaves alone.
sessionVars == <<script, program, app, appFiles, solveLog, statVar, cache, downloaded, log,
                 cleanupWhileLoaded, written, twoApps, buildVars, peerVars, printVars>>

\* r = solution.AddNormalStress() / r = contact_tool.AddPressure()
AddResult ==
  /\ Ready("add_result")
  /\ Completes({})
  /\ results' = (Steps[pc].var :> NewResult) @@ results
  /\ created' = Append(created, [var |-> Steps[pc].var, kind |-> Steps[pc].arg])
  /\ UNCHANGED <<sessionVars, analyses, stepSettings, wear, loads, named, lastLookup,
                 reference>>

\* r.NormalOrientation = ... / r.DisplayTime = Quantity(...) / r.DisplayOption = ...
SetResult ==
  /\ Ready("set_result")
  /\ Completes({})
  /\ results' = [results EXCEPT ![Steps[pc].obj][Steps[pc].arg] = Steps[pc].var]
  /\ UNCHANGED <<sessionVars, setupVars, analyses>>

\* def set_properties_for_result(result, display_time,
\*         orientation_type=NormalOrientationType.YAxis,
\*         display_option=ResultAveragingType.Unaveraged)
set_properties_for_result(result, display_time, orientation_type, display_option) ==
  [result EXCEPT !.NormalOrientation = orientation_type,
                 !.DisplayTime = display_time,
                 !.DisplayOption = display_option]

\* set_properties_for_result(r, display_time="..."), the other two parameters
\* at their defaults.
ConfigureResult ==
  /\ Ready("configure_result")
  /\ Completes({})
  /\ results' = [results EXCEPT ![Steps[pc].obj] =
                   set_properties_for_result(@, Steps[pc].var, "YAxis", "Unaveraged")]
  /\ UNCHANGED <<sessionVars, setupVars, analyses>>

\* Add...Analysis() as it would be if the new analysis were put in front of
\* the existing ones.
AddAnalysisInFront ==
  /\ Ready("add_analysis")
  /\ Completes({})
  /\ analyses' = <<[var |-> Steps[pc].var, kind |-> Steps[pc].arg]>> \o analyses
  /\ UNCHANGED <<sessionVars, setupVars, results>>

\* a = Model.Add...Analysis(): the analysis is added after the existing ones.
AddAnalysis ==
  /\ Ready("add_analysis")
  /\ Completes({})
  /\ analyses' = Append(analyses, [var |-> Steps[pc].var, kind |-> Steps[pc].arg])
  /\ UNCHANGED <<sessionVars, setupVars, results>>

\* A statement that reads Model.Analyses[k].
AnalysisRef ==
  /\ Ready("analysis_ref")
  /\ Completes({})
  /\ UNCHANGED <<sessionVars, setupVars, treeVars>>

\* p.PreStressICEnvironment = Model.Analyses[k]
PreStress ==
  /\ Ready("prestress")
  /\ Completes({})
  /\ UNCHANGED <<sessionVars, setupVars, treeVars>>

\* b.TransferDataFrom(a)
Transfer ==
  /\ Ready("transfer")
  /\ Completes({})
  /\ UNCHANGED <<sessionVars, setupVars, treeVars>>

\* config.SolveProcessSettings.MaxNumberOfCores = 1 /
\* config.SolveProcessSettings.DistributeSolution = False, with config the
\* solve configuration "My Computer".
SetSolveConfig ==
  /\ Ready("set_solve_config")
  /\ Completes({})
  /\ solveConfig' = [solveConfig EXCEPT ![Steps[pc].arg] = Steps[pc].var]
  /\ UNCHANGED <<script, program, app, appFiles, solveLog, statVar, cache, downloaded, log,
                 cleanupWhileLoaded, written, twoApps, treeVars, envGithub,
                 confApp, queue, peerVars, printVars, setupVars>>

\* The number written in an assignment or an index, as a number.
Digits == <<"0", "1", "2", "3", "4", "5", "6", "7", "8", "9">>

IndexOf(a) == (CHOOSE k \in DOMAIN Digits : Digits[k] = a) - 1

\* analysis_settings.NumberOfSteps = n
SetNumberOfSteps ==
  /\ Ready("number_of_steps")
  /\ Completes({})
  /\ stepSettings' = [stepSettings EXCEPT !.NumberOfSteps = IndexOf(Steps[pc].arg)]
  /\ UNCHANGED <<sessionVars, treeVars, wear, loads, created, named, lastLookup, reference>>

\* analysis_settings.CurrentStepNumber = k.  What the application does with
\* a step number beyond the number of steps is its own affair: it takes the
\* assignment or it raises.
SelectStep ==
  /\ Ready("select_step")
  /\ LET k == IndexOf(Steps[pc].arg) IN
     \E taken \in BOOLEAN :
       IF taken
       THEN /\ Completes({})
            /\ stepSettings' = [stepSettings EXCEPT !.CurrentStepNumber = k]
       ELSE /\ stepSettings.NumberOfSteps # 0
            /\ k > stepSettings.NumberOfSteps
            /\ Raise("AppError")
            /\ UNCHANGED stepSettings
  /\ UNCHANGED <<sessionVars, treeVars, wear, loads, created, named, lastLookup, reference>>

\* The assignment as it would be if it set the end time of the first step
\* whatever step is current.
SetStepEndTimeOfFirstStep ==
  /\ Ready("step_end_time")
  /\ Completes({})
  /\ stepSettings' = [stepSettings EXCEPT !.StepEndTime =
                        (1 :> IndexOf(Steps[pc].arg) * 100) @@ @]
  /\ UNCHANGED <<sessionVars, treeVars, wear, loads, created, named, lastLookup, reference>>

\* analysis_settings.StepEndTime = Quantity("t [s]"): the end time of the
\* current step, kept in hundredths of a second.
SetStepEndTime ==
  /\ Ready("step_end_time")
  /\ Completes({})
  /\ stepSettings' = [stepSettings EXCEPT !.StepEndTime =
                        (stepSettings.CurrentStepNumber :> IndexOf(Steps[pc].arg) * 100) @@ @]
  /\ UNCHANGED <<sessionVars, treeVars, wear, loads, created, named, lastLookup, reference>>

\* The time at which step k ends, in hundredths of a second: the end time
\* the script assigned to it, and for a step the script left alone one second
\* for each step up to it, the times against which the scripts that assign
\* no end time tabulate their loads (0, 1, 2 s for the two steps of
\* steady_state_thermal_analysis.py; 0, 1 s for the single step of valve.py).
EndOfStep(k) ==
  IF k \in DOMAIN stepSettings.StepEndTime
  THEN stepSettings.StepEndTime[k]
  ELSE k * 100

\* cmd1.AppendText(archard_wear_model)
AppendWearTable ==
  /\ Ready("wear_table")
  /\ Completes({})
  /\ wear' = WearTable(script)
  /\ UNCHANGED <<sessionVars, treeVars, stepSettings, loads, created, named, lastLookup,
                 reference>>

\* load.Component.Output.DiscreteValues = [...]
SetLoad ==
  /\ Ready("set_load")
  /\ Completes({})
  /\ loads' = Append(loads, [target |-> Steps[pc].obj, values |-> Steps[pc].var])
  /\ UNCHANGED <<sessionVars, treeVars, stepSettings, wear, created, named, lastLookup,
                 reference>>

\* def add_contact_pressure(contact_tool, display_time): a pressure result is
\* added to the contact tool and its display time set.
add_contact_pressure(display_time) ==
  [NewResult EXCEPT !.DisplayTime = display_time]

\* add_contact_pressure(contact_tool, display_time="...")
AddContactPressure ==
  /\ Ready("add_contact_pressure")
  /\ Completes({})
  /\ results' = (Steps[pc].obj :> add_contact_pressure(Steps[pc].var)) @@ results
  /\ created' = Append(created, [var |-> Steps[pc].obj, kind |-> Steps[pc].arg])
  /\ UNCHANGED <<sessionVars, analyses, stepSettings, wear, loads, named, lastLookup,
                 reference>>

\* obj.Name = "..."
SetName ==
  /\ Ready("set_name")
  /\ Completes({})
  /\ named' = (Steps[pc].obj :> Steps[pc].arg) @@ named
  /\ UNCHANGED <<sessionVars, treeVars, stepSettings, wear, loads, created, lastLookup,
                 reference>>

\* The most objects of one name a tree is taken to hold.
MaxMatches == 2

\* v = [x for x in ...AllObjects if x.Name == "name"][k]: the tree holds some
\* number of objects of that name, the objects the script named so among
\* them; taking element k of fewer than k + 1 matches raises IndexError.
Lookup ==
  /\ Ready("lookup")
  /\ LET name  == Steps[pc].arg
         index == IndexOf(Steps[pc].obj)
         own   == Cardinality({v \in DOMAIN named : named[v] = name})
     IN \E matches \in 0 .. MaxMatches :
          /\ matches >= own \/ matches = MaxMatches
          /\ IF index < matches
             THEN /\ Completes({})
                  /\ lastLookup' = [name |-> name, index |-> index, matches |-> matches]
             ELSE /\ Raise("IndexError")
                  /\ UNCHANGED lastLookup
  /\ UNCHANGED <<sessionVars, treeVars, stepSettings, wear, loads, created, named,
                 reference>>

\* if solve_out_path: the test of a path that is a string or a Path object:
\* true unless the string is empty.
Truthy(path) == path # ""

\* if solve_out_path: <open the file and print its lines>.  open() raises
\* when the file is not there.
ShowSolveOut ==
  /\ Ready("show_solve_out")
  /\ \E exists \in BOOLEAN :
       IF Truthy(Steps[pc].arg) /\ ~exists
       THEN Raise("FileNotFoundError")
       ELSE Completes({})
  /\ UNCHANGED <<sessionVars, treeVars, setupVars>>

Next ==
  \/ NameError
  \/ Import
  \/ Def
  \/ Block
  \/ Call
  \/ AppCtor
  \/ UpdateGlobals
  \/ GlobalVariables
  \/ Download
  \/ ReadFixture
  \/ Open
  \/ Solve
  \/ ReadStatus
  \/ AssertStatus
  \/ AssertState
  \/ Export
  \/ Save
  \/ SaveAs
  \/ New
  \/ Close
  \/ DeleteDownloads
  \/ AddResult
  \/ SetResult
  \/ ConfigureResult
  \/ AddAnalysis
  \/ AnalysisRef
  \/ PreStress
  \/ Transfer
  \/ SetSolveConfig
  \/ SetNumberOfSteps
  \/ SelectStep
  \/ SetStepEndTime
  \/ AppendWearTable
  \/ SetLoad
  \/ AddContactPressure
  \/ SetName
  \/ Lookup
  \/ ShowSolveOut

Spec == Init /\ [][Next]_vars

---------------------------------------------------------------------------
\* The documentation build: Sphinx executes doc/source/conf.py, then the
\* gallery extension executes the examples of examples/basic one after the
\* other, in file-name order, in the process that executed conf.py.

\* sphinx_gallery_conf: examples_dirs = ["../../examples/basic"], every .py
\* file, ordered by FileNameSortKey.
GalleryExamples ==
  <<"basic/LSDyna_analysis.py",
    "basic/bolt_pretension.py",
    "basic/contact_debonding.py",
    "basic/fracture_analysis_contact_debonding.py",
    "basic/modal_acoustics.py",
    "basic/steady_state_thermal_analysis.py",
    "basic/topology_optimization_cantilever.py",
    "basic/topology_optimization_cantilever_beam.py",
    "basic/valve.py">>

\* The solve process settings conf.py writes on a GitHub build.
GithubSettings ==
  [MaxNumberOfCores |-> "1", DistributeSolution |-> "False"]

InitBuild ==
  /\ script = GalleryExamples[1]
  /\ program = Program(script)
  /\ pc = 1
  /\ outcome = "conf"
  /\ error = ""
  /\ bound = {}
  /\ app = "none"
  /\ appFiles = {}
  /\ solveLog = <<>>
  /\ statVar = [v \in StatusVars(script) |-> "unset"]
  /\ cache = {}
  /\ downloaded = {}
  /\ log = <<>>
  /\ cleanupWhileLoaded = FALSE
  /\ written = <<>>
  /\ results = NoResults
  /\ analyses = <<>>
  /\ twoApps = FALSE
  /\ envGithub \in BOOLEAN
  /\ confApp = FALSE
  /\ solveConfig = ProductSettings
  /\ queue = GalleryExamples
  /\ peer = "none"
  /\ peerPc = 0
  /\ peerDownloaded = {}
  /\ project = NoProject
  /\ frames = <<>>
  /\ output = <<>>
  /\ stepSettings = NoStepSettings
  /\ wear = <<>>
  /\ loads = <<>>
  /\ created = <<>>
  /\ named = NoNames
  /\ lastLookup = NoLookup
  /\ reference = <<>>

\* What conf.py leaves alone.
confFrame == <<script, program, pc, bound, app, appFiles, solveLog, statVar, cache, downloaded,
               log, cleanupWhileLoaded, written, treeVars, twoApps, envGithub,
               queue, peerVars, printVars, setupVars>>

\* conf.py as it would be without the test on the environment variable.
ConfPyUnconditional ==
  /\ outcome = "conf"
  /\ outcome' = "configured"
  /\ error' = error
  /\ confApp' = TRUE
  /\ solveConfig' = GithubSettings
  /\ UNCHANGED confFrame

\* conf.py, lines 131-136: on a GitHub build an App is constructed and kept in
\* the global `app`, and the "My Computer" solve configuration is set to one
\* core, not distributed.  The construction can raise, which ends the build.
ConfPy ==
  /\ outcome = "conf"
  /\ IF envGithub
     THEN \E ok \in BOOLEAN :
            IF ok
            THEN /\ outcome' = "configured"
                 /\ error' = error
                 /\ confApp' = TRUE
                 /\ solveConfig' = GithubSettings
            ELSE /\ outcome' = "aborted"
                 /\ error' = "AppError"
                 /\ UNCHANGED <<confApp, solveConfig>>
     ELSE /\ outcome' = "configured"
          /\ UNCHANGED <<error, confApp, solveConfig>>
  /\ UNCHANGED confFrame

\* The gallery runs the next example in a namespace of its own; an example
\* that failed does not stop the build.
StartExample ==
  /\ outcome \in {"configured", "finished", "failed"}
  /\ queue # <<>>
  /\ script' = Head(queue)
  /\ program' = Program(Head(queue))
  /\ queue' = Tail(queue)
  /\ pc' = 1
  /\ outcome' = "running"
  /\ error' = ""
  /\ bound' = {}
  /\ app' = "none"
  /\ appFiles' = {}
  /\ solveLog' = <<>>
  /\ statVar' = [v \in StatusVars(Head(queue)) |-> "unset"]
  /\ log' = <<>>
  /\ cleanupWhileLoaded' = FALSE
  /\ written' = <<>>
  /\ results' = NoResults
  /\ analyses' = <<>>
  /\ stepSettings' = NoStepSettings
  /\ wear' = <<>>
  /\ loads' = <<>>
  /\ created' = <<>>
  /\ named' = NoNames
  /\ lastLookup' = NoLookup
  /\ UNCHANGED <<cache, downloaded, twoApps, envGithub, confApp, solveConfig, peerVars,
                 printVars, reference>>

NextBuild ==
  \/ ConfPy
  \/ StartExample
  \/ Import
  \/ Def
  \/ Block
  \/ Call
  \/ AppCtor
  \/ UpdateGlobals
  \/ GlobalVariables
  \/ Download
  \/ ReadFixture
  \/ Open
  \/ Solve
  \/ AssertStatus
  \/ AssertState
  \/ Export
  \/ Save
  \/ New
  \/ DeleteDownloads
  \/ AddAnalysis
  \/ AnalysisRef
  \/ Transfer
  \/ SetSolveConfig
  \/ SetNumberOfSteps
  \/ SetLoad
  \/ SetName
  \/ Lookup
  \/ ShowSolveOut

SpecBuild == InitBuild /\ [][NextBuild]_vars

---------------------------------------------------------------------------
\* Two scripts against one fixture cache: `script` runs as above while `peer`,
\* another script in a process of its own, runs at the same time.  Of the peer
\* only the statements that touch the cache are followed.

\* The cache statements of a script, in program order.
PeerOps(s) == SelectSeq(StepsOf(s), LAMBDA st : st.op \in {"download", "delete_downloads"})

\* The scripts that download a fixture that s downloads too.
Sharing(s) == {p \in ScriptNames \ {s} : Fixtures(p) \cap Fixtures(s) # {}}

InitPair ==
  /\ script \in {s \in ScriptNames : Sharing(s) # {}}
  /\ program = Program(script)
  /\ pc = 1
  /\ outcome = "running"
  /\ error = ""
  /\ bound = {}
  /\ app = "none"
  /\ appFiles = {}
  /\ solveLog = <<>>
  /\ statVar = [v \in StatusVars(script) |-> "unset"]
  /\ cache \in SUBSET Fixtures(script)
  /\ downloaded = {}
  /\ log = <<>>
  /\ cleanupWhileLoaded = FALSE
  /\ written = <<>>
  /\ results = NoResults
  /\ analyses = <<>>
  /\ twoApps = FALSE
  /\ envGithub = FALSE
  /\ confApp = FALSE
  /\ solveConfig = ProductSettings
  /\ queue = <<>>
  /\ peer \in Sharing(script)
  /\ peerPc = 1
  /\ peerDownloaded = {}
  /\ project = NoProject
  /\ frames = <<>>
  /\ output = <<>>
  /\ stepSettings = NoStepSettings
  /\ wear = <<>>
  /\ loads = <<>>
  /\ created = <<>>
  /\ named = NoNames
  /\ lastLookup = NoLookup
  /\ reference = <<>>

\* What a statement of the peer leaves alone: everything of `script` but the
\* cache.
ownVars == <<script, program, pc, outcome, error, bound, app, appFiles, solveLog, statVar,
             downloaded, log, cleanupWhileLoaded, written, treeVars, twoApps,
             buildVars, printVars, setupVars>>

\* The peer's download_file: as Download, in the peer's process.  A failed
\* fetch ends the peer.
PeerDownload ==
  /\ peer # "none"
  /\ peerPc <= Len(PeerOps(peer))
  /\ PeerOps(peer)[peerPc].op = "download"
  /\ LET f == PeerOps(peer)[peerPc].arg IN
     \E ok \in BOOLEAN :
       IF f \in cache
       THEN /\ ok
            /\ peerPc' = peerPc + 1
            /\ UNCHANGED <<cache, peerDownloaded>>
       ELSE IF ok
            THEN /\ peerPc' = peerPc + 1
                 /\ cache' = cache \cup {f}
                 /\ peerDownloaded' = peerDownloaded \cup {f}
            ELSE /\ peerPc' = Len(PeerOps(peer)) + 1
                 /\ UNCHANGED <<cache, peerDownloaded>>
  /\ UNCHANGED <<peer, ownVars>>

\* The peer's delete_downloads(): as DeleteDownloads, in the peer's process.
PeerDelete ==
  /\ peer # "none"
  /\ peerPc <= Len(PeerOps(peer))
  /\ PeerOps(peer)[peerPc].op = "delete_downloads"
  /\ peerPc' = peerPc + 1
  /\ cache' = cache \ peerDownloaded
  /\ UNCHANGED <<peer, peerDownloaded, ownVars>>

NextPair ==
  \/ PeerDownload
  \/ PeerDelete
  \/ NameError
  \/ Import
  \/ Def
  \/ Block
  \/ Call
  \/ AppCtor
  \/ UpdateGlobals
  \/ GlobalVariables
  \/ Download
  \/ ReadFixture
  \/ Open
  \/ Solve
  \/ AssertStatus
  \/ AssertState
  \/ Export
  \/ Save
  \/ New
  \/ Close
  \/ DeleteDownloads
  \/ AddResult
  \/ SetResult
  \/ ConfigureResult
  \/ AddAnalysis
  \/ AnalysisRef
  \/ Transfer
  \/ SetSolveConfig
  \/ SetNumberOfSteps
  \/ SelectStep
  \/ SetStepEndTime
  \/ AppendWearTable
  \/ SetLoad
  \/ AddContactPressure
  \/ SetName
  \/ Lookup
  \/ ShowSolveOut

SpecPair == InitPair /\ [][NextPair]_vars

---------------------------------------------------------------------------
\* The two wear scripts run one after the other, each in a process of its own:
\* contact_wear_simulation.py (the version with helper functions) first, then
\* conact_wear_simulation.py, with what the first run set up kept beside the
\* second.

\* What a run has set up and how it ended: the results in order of creation
\* with their settings, the step settings, the loads, the teardown calls.
Summary ==
  [results  |-> [i \in DOMAIN created |->
                   [kind |-> created[i].kind, settings |-> results[created[i].var]]],
   steps    |-> stepSettings,
   loads    |-> loads,
   teardown |-> log]

InitTwin ==
  /\ Init
  /\ script = "02_technology_showcase/contact_wear_simulation.py"

\* The first script has finished; its summary is kept and the second script
\* starts in a fresh process on the same cache.
StartTwin ==
  /\ script = "02_technology_showcase/contact_wear_simulation.py"
  /\ outcome = "finished"
  /\ reference' = <<Summary>>
  /\ script' = "02_technology_showcase/conact_wear_simulation.py"
  /\ program' = Program("02_technology_showcase/conact_wear_simulation.py")
  /\ pc' = 1
  /\ outcome' = "running"
  /\ error' = ""
  /\ bound' = {}
  /\ app' = "none"
  /\ appFiles' = {}
  /\ solveLog' = <<>>
  /\ statVar' = [v \in StatusVars("02_technology_showcase/conact_wear_simulation.py") |-> "unset"]
  /\ downloaded' = {}
  /\ log' = <<>>
  /\ cleanupWhileLoaded' = FALSE
  /\ written' = <<>>
  /\ results' = NoResults
  /\ analyses' = <<>>
  /\ stepSettings' = NoStepSettings
  /\ wear' = <<>>
  /\ loads' = <<>>
  /\ created' = <<>>
  /\ named' = NoNames
  /\ lastLookup' = NoLookup
  /\ UNCHANGED <<cache, twoApps, buildVars, peerVars, printVars>>

NextTwin ==
  \/ StartTwin
  \/ Import
  \/ Def
  \/ Block
  \/ Call
  \/ AppCtor
  \/ Download
  \/ ReadFixture
  \/ Solve
  \/ AssertStatus
  \/ Export
  \/ Save
  \/ New
  \/ Close
  \/ DeleteDownloads
  \/ AddResult
  \/ SetResult
  \/ ConfigureResult
  \/ AddAnalysis
  \/ AnalysisRef
  \/ SetNumberOfSteps
  \/ SelectStep
  \/ SetStepEndTime
  \/ AppendWearTable
  \/ SetLoad
  \/ AddContactPressure
  \/ Lookup

SpecTwin == InitTwin /\ [][NextTwin]_vars

---------------------------------------------------------------------------
\* print_tree(node, indentation=""): the recursive helper that prints the
\* project tree.  A project is a finite tree of nodes 1 .. n with root 1;
\* parent[c] is the node whose Children holds c, and Children lists a node's
\* children in increasing order of their numbers.

\* The largest project tree enumerated.
MaxNodes == 4

\* The scripts that define print_tree.
PrintTreeScripts ==
  {"basic/LSDyna_analysis.py",
   "basic/fracture_analysis_contact_debonding.py",
   "basic/topology_optimization_cantilever_beam.py"}

\* The finite projects: every rooted tree on 1 .. n, each with the three ways
\* a childless node can present its Children (no such attribute, None, an
\* empty collection) and any set of suppressed nodes.
Projects ==
  UNION {
    { [n |-> n, parent |-> p, leaf |-> k, suppressed |-> s] :
        p \in {q \in [1 .. n -> 0 .. n] :
                 q[1] = 0 /\ \A i \in 2 .. n : q[i] \in 1 .. (i - 1)},
        k \in {"absent", "None", "empty"},
        s \in SUBSET (1 .. n) } : n \in 1 .. MaxNodes }

Nodes == 1 .. project.n

RECURSIVE Ascending(_)
\* The members of a set of numbers, in increasing order.
Ascending(set) ==
  IF set = {} THEN <<>>
  ELSE LET least == CHOOSE x \in set : \A y \in set : x <= y
       IN <<least>> \o Ascending(set \ {least})

\* node.Children, as the items it iterates over.
Children(node) == Ascending({c \in Nodes : project.parent[c] = node})

\* hasattr(node, "Children") and node.Children is not None and
\* node.Children.Count > 0
HasChildren(node) ==
  LET childless == Children(node) = <<>>
      hasattr   == ~(childless /\ project.leaf = "absent")
      notNone   == ~(childless /\ project.leaf = "None")
  IN hasattr /\ notNone /\ Len(Children(node)) > 0

\* The argument of the recursive call, as it would be if the indentation
\* were passed on unchanged.
SameIndentation(indentation) == indentation

\* indentation + "|  "
ChildIndentation(indentation) == indentation \o "|  "

\* The line the function prints for a node: the indentation, the branch
\* mark and the name, with " (Suppressed)" in the version of
\* basic/LSDyna_analysis.py, which marks suppressed nodes.
Line(node, indentation) ==
  [indentation |-> indentation,
   name |-> node,
   suffix |-> IF script = "basic/LSDyna_analysis.py" /\ node \in project.suppressed
              THEN " (Suppressed)" ELSE ""]

\* Entering print_tree(node, indentation): the line is printed and the loop
\* over the children, if there is one, starts at the first child.
Enter(node, indentation) ==
  /\ output' = Append(output, Line(node, indentation))
  /\ frames' = Append(frames, [node |-> node, indentation |-> indentation, next |-> 1])

\* What print_tree leaves alone.
printFrame == <<script, program, pc, outcome, error, bound, app, appFiles, solveLog, statVar,
                cache, downloaded, log, cleanupWhileLoaded, written, treeVars,
                twoApps, buildVars, peerVars, setupVars, project>>

InitTree ==
  /\ script \in PrintTreeScripts
  /\ program = Program(script)
  /\ pc = CHOOSE i \in DOMAIN StepsOf(script) :
            /\ StepsOf(script)[i].op = "call"
            /\ "print_tree" \in StepsOf(script)[i].calls
  /\ outcome = "running"
  /\ error = ""
  /\ bound = {}
  /\ app = "loaded"
  /\ appFiles = {}
  /\ solveLog = <<>>
  /\ statVar = [v \in StatusVars(script) |-> "unset"]
  /\ cache = {}
  /\ downloaded = {}
  /\ log = <<>>
  /\ cleanupWhileLoaded = FALSE
  /\ written = <<>>
  /\ results = NoResults
  /\ analyses = <<>>
  /\ twoApps = FALSE
  /\ envGithub = FALSE
  /\ confApp = FALSE
  /\ solveConfig = ProductSettings
  /\ queue = <<>>
  /\ peer = "none"
  /\ peerPc = 0
  /\ peerDownloaded = {}
  /\ project \in Projects
  /\ frames = <<>>
  /\ output = <<>>
  /\ stepSettings = NoStepSettings
  /\ wear = <<>>
  /\ loads = <<>>
  /\ created = <<>>
  /\ named = NoNames
  /\ lastLookup = NoLookup
  /\ reference = <<>>

\* print_tree(root_node)
PrintTreeCall ==
  /\ project.n > 0
  /\ frames = <<>>
  /\ output = <<>>
  /\ Enter(1, "")
  /\ UNCHANGED printFrame

\* for child in node.Children: print_tree(child, indentation + "|  ")
PrintTreeChild ==
  /\ frames # <<>>
  /\ LET top == frames[Len(frames)] IN
       /\ HasChildren(top.node)
       /\ top.next <= Len(Children(top.node))
       /\ output' = Append(output,
                      Line(Children(top.node)[top.next], ChildIndentation(top.indentation)))
       /\ frames' = Append([frames EXCEPT ![Len(frames)].next = top.next + 1],
                      [node |-> Children(top.node)[top.next],
                       indentation |-> ChildIndentation(top.indentation),
                       next |-> 1])
  /\ UNCHANGED printFrame

\* The call returns: the node has nothing to iterate over, or the loop is
\* exhausted.
PrintTreeReturn ==
  /\ frames # <<>>
  /\ LET top == frames[Len(frames)] IN
       \/ ~HasChildren(top.node)
       \/ top.next > Len(Children(top.node))
  /\ frames' = SubSeq(frames, 1, Len(frames) - 1)
  /\ UNCHANGED <<output, printFrame>>

NextTree ==
  \/ PrintTreeCall
  \/ PrintTreeChild
  \/ PrintTreeReturn

\* print_tree runs on its own: a step that can be taken is taken.
SpecTree == InitTree /\ [][NextTree]_vars /\ WF_vars(NextTree)




---------------------------------------------------------------------------
\* The statements executed so far are Steps[1] .. Steps[pc - 1]; a statement
\* that raised is Steps[pc] of a failed run.
Executed == 1 .. (pc - 1)

\* The teardown calls made so far: the log without the save_as calls made
\* while the model is being built and solved.
Teardown == SelectSeq(log, LAMBDA c : c # "save_as")

IsPrefix(a, b) == Len(a) <= Len(b) /\ a = SubSeq(b, 1, Len(a))

\* C1: whenever a solve has returned with a status other than Done, the run
\* has executed nothing after it but the read of the status and the status
\* assertion: no result read, export, save or teardown step follows a failed
\* solve.
C1_FailedSolveStopsTheScript ==
  \A i \in DOMAIN solveLog :
    solveLog[i].status # "Done" =>
      \A j \in Executed :
        j > solveLog[i].step => Steps[j].op \in {"read_status", "assert_status"}

\* C2: a status assertion that has just passed means the most recent solve
\* ended Done, and a status assertion that has just failed means the most
\* recent solve did not end Done.
C2_AssertionJudgesTheLatestSolve ==
  /\ (pc > 1 /\ Steps[pc - 1].op = "assert_status") =>
       (solveLog # <<>> /\ solveLog[Len(solveLog)].status = "Done")
  /\ (outcome = "failed" /\ error = "AssertionError" /\ Steps[pc].op = "assert_status") =>
       (solveLog # <<>> /\ solveLog[Len(solveLog)].status # "Done")

\* C3 (as claimed): a script that has run to its end has torn down by saving
\* the project, then calling new(), then delete_downloads(), and never called
\* delete_downloads() while the application held a fixture's model.
C3_SaveNewDeleteInEveryScript ==
  outcome = "finished" =>
    /\ Teardown = <<"save", "new", "delete_downloads">>
    /\ ~ cleanupWhileLoaded

\* The teardown sequences of the gallery.
TeardownOutsideTips ==
  {<<"save", "new", "delete_downloads">>,
   <<"save", "close", "delete_downloads">>,
   <<"close", "delete_downloads">>}

TeardownInTips ==
  {<<"delete_downloads", "new">>, <<"new">>}

\* C3 (amended): outside 00_tips the teardown calls come in the order save
\* (where the script saves), reset by new() or close(), delete_downloads(), so
\* delete_downloads() never runs while the application holds a fixture's
\* model; in 00_tips delete_downloads() comes first, while the application
\* still holds the model of the downloaded fixture, then new(), and nothing is
\* saved; tips_05 downloads nothing and only calls new().
C3_TeardownOrder ==
  LET allowed == IF script \in TipsScripts THEN TeardownInTips ELSE TeardownOutsideTips
  IN  /\ \E t \in allowed : IsPrefix(Teardown, t)
      /\ outcome = "finished" => Teardown \in allowed
      /\ cleanupWhileLoaded <=>
           (script \in TipsScripts /\ Teardown # <<>> /\ Teardown[1] = "delete_downloads")

\* C3 witness: a tips script has run to its end, and deleted its download
\* while the application held the model imported from it.
C3_Witness ==
  /\ outcome = "finished"
  /\ script \in TipsScripts
  /\ cleanupWhileLoaded
  /\ Teardown = <<"delete_downloads", "new">>

\* C5: once a script has run to its last statement, no file it downloaded
\* during the run is left in the local cache.
C5_DownloadsDeletedAtEnd ==
  outcome = "finished" => downloaded \cap cache = {}

\* C5 witness: a script that downloaded a fixture has run to its end.
C5_Witness ==
  /\ outcome = "finished"
  /\ downloaded # {}
  /\ "delete_downloads" \in Range(log)

\* C10: the statement about to execute reads only names that are bound,
\* the names read by the bodies of the helpers it calls included.
C10_EveryNameIsBound ==
  outcome = "running" => Uses(Steps[pc]) \subseteq bound

\* The scripts that end the session with app.close() in place of app.new().
CloseScripts ==
  {"02_technology_showcase/contact_wear_simulation.py",
   "02_technology_showcase/prestressed_modal_cyclic_symmetry_analysis.py"}

\* C11 (as claimed): a script that constructed an application and has run to
\* its end has called new() on it, and the application is in the freshly
\* reset state.
C11_NewBeforeExit ==
  (outcome = "finished" /\ app # "none") =>
    ("new" \in Range(log) /\ app = "fresh")

\* C11 (amended): a script that has run to its last statement has ended the
\* session of the application it constructed: with close() in the scripts of
\* CloseScripts, which leaves the application closed, and with new() in every
\* other script, which leaves it freshly reset; no script calls both.
C11_SessionEndedBeforeExit ==
  outcome = "finished" =>
    /\ app \in {"fresh", "closed"}
    /\ IF script \in CloseScripts
       THEN app = "closed" /\ "close" \in Range(log) /\ "new" \notin Range(log)
       ELSE app = "fresh" /\ "new" \in Range(log) /\ "close" \notin Range(log)

\* C11 witness: contact_wear_simulation.py has run to its end and closed the
\* application without resetting it.
C11_Witness ==
  /\ outcome = "finished"
  /\ script = "02_technology_showcase/contact_wear_simulation.py"
  /\ app = "closed"
  /\ "new" \notin Range(log)

\* The failures other than a failed solve-status check: a name that is not
\* bound, a lookup by name that finds nothing, a bad API call or version
\* mismatch at construction, a fixture that cannot be fetched or is missing,
\* an object state that is not the expected one.
OtherFailures ==
  {"NameError", "IndexError", "AppError", "DownloadError", "FileNotFoundError",
   "AssertionError"}

\* C14: a step that fails raises, the run stops at the failing statement with
\* the exception recorded, and a run that has failed executes nothing more.
C14_FailureAbortsTheScript ==
  [][/\ outcome # "failed"
     /\ error' # error =>
          (outcome' = "failed" /\ pc' = pc /\ error' \in OtherFailures)
     /\ outcome' = "failed" =>
          (pc' = pc /\ error' # "" /\ log' = log /\ written' = written
             /\ solveLog' = solveLog)]_vars

\* C14 witness: a lookup by name found nothing and the run stopped there.
C14_Witness ==
  /\ outcome = "failed"
  /\ error = "IndexError"
  /\ Steps[pc].op = "lookup"
  /\ pc < NSteps

\* The executed statements of the given kinds.
Ops(kinds) == {j \in Executed : Steps[j].op \in kinds}

CleanupOps == {"save", "new", "close", "delete_downloads"}

\* The scripts that never invoke the solver: the tips, and bolt_pretension.py,
\* whose Solve call (line 427) is commented out.
NoSolveScripts == TipsScripts \cup {"basic/bolt_pretension.py"}

WearScripts ==
  {"02_technology_showcase/contact_wear_simulation.py",
   "02_technology_showcase/conact_wear_simulation.py"}

\* A normal-stress result shown at the given time along the Y axis, unaveraged.
NormalStressAt(time) ==
  [NormalOrientation |-> "YAxis", DisplayTime |-> time, DisplayOption |-> "Unaveraged"]

\* C17: when a contact wear script is about to invoke the solve, both
\* normal-stress results exist and are configured: normal_stress1 for 1 s and
\* normal_stress2 for 4 s, each along the Y axis and unaveraged.
C17_NormalStressesConfiguredAtSolve ==
  (script \in WearScripts /\ outcome = "running" /\ Steps[pc].op = "solve") =>
    /\ {"normal_stress1", "normal_stress2"} \subseteq DOMAIN results
    /\ results["normal_stress1"] = NormalStressAt("1 [s]")
    /\ results["normal_stress2"] = NormalStressAt("4 [s]")

PrestressedScript == "02_technology_showcase/prestressed_modal_cyclic_symmetry_analysis.py"

\* The Add...Analysis statements executed so far, latest last.
RECURSIVE AddedUpTo(_)
AddedUpTo(j) ==
  IF j = 0 THEN <<>>
  ELSE IF Steps[j].op = "add_analysis"
       THEN Append(AddedUpTo(j - 1), Steps[j])
       ELSE AddedUpTo(j - 1)

Added == AddedUpTo(pc - 1)

\* Model.Analyses[k] denotes the analysis added by the latest Add...Analysis
\* statement, and k + 1 analyses exist.
DenotesLatest(k) ==
  /\ Len(analyses) = k + 1
  /\ Added # <<>>
  /\ analyses[k + 1].var = Added[Len(Added)].var
  /\ analyses[k + 1].kind = Added[Len(Added)].arg

\* Model.Analyses[k] denotes the static structural analysis added by the
\* Add...Analysis statement before the latest one, and the latest one added
\* the modal analysis `modal`.
DenotesStaticBefore(k, modal) ==
  /\ Len(analyses) = k + 2
  /\ Len(Added) >= 2
  /\ analyses[k + 1].var = Added[Len(Added) - 1].var
  /\ analyses[k + 1].kind = "StaticStructural"
  /\ analyses[k + 2].var = modal
  /\ analyses[k + 2].kind = "Modal"
  /\ Added[Len(Added)].var = modal

\* C18 (as claimed): in the prestressed modal script, whenever a statement is
\* about to read Model.Analyses[k], the pre-stress assignments included,
\* exactly k + 1 analyses exist and index k is the one added last; and a
\* pre-stress link is given a static structural analysis.
C18_EveryDereferenceIsTheLatest ==
  (script = PrestressedScript /\ outcome = "running"
     /\ Steps[pc].op \in {"analysis_ref", "prestress"}) =>
    /\ DenotesLatest(IndexOf(Steps[pc].arg))
    /\ Steps[pc].op = "prestress" =>
         analyses[IndexOf(Steps[pc].arg) + 1].kind = "StaticStructural"

\* C18 (amended): a statement that reads Model.Analyses[k] for the settings or
\* the solution does so when exactly k + 1 analyses exist, index k being the
\* one added last; a pre-stress assignment reads Model.Analyses[k] when
\* k + 2 analyses exist: index k is the static structural analysis added just
\* before the modal analysis the link is set on, which is the one added last.
C18_DereferencesFollowTheAdds ==
  (script = PrestressedScript /\ outcome = "running") =>
    /\ Steps[pc].op = "analysis_ref" => DenotesLatest(IndexOf(Steps[pc].arg))
    /\ Steps[pc].op = "prestress" =>
         DenotesStaticBefore(IndexOf(Steps[pc].arg), Steps[pc].var)

\* C18 witness: the script is about to set the pre-stress link of MODAL03 to
\* Model.Analyses[3] with five analyses in the model.
C18_Witness ==
  /\ script = PrestressedScript
  /\ outcome = "running"
  /\ Steps[pc].op = "prestress"
  /\ Steps[pc].var = "MODAL03"
  /\ Len(analyses) = IndexOf(Steps[pc].arg) + 2

\* The topology-optimization scripts.
TopologyScripts ==
  {"01_basic/topology_optimization_cantilever_beam.py",
   "basic/topology_optimization_cantilever.py",
   "basic/topology_optimization_cantilever_beam.py",
   "technology_showcase/topology_optimization_cantilever.py"}

\* The solves made so far of an analysis, invoked on the analysis itself
\* (analysis.Solve()) or on its solution (analysis.Solution.Solve(True)).
SolvesOf(analysis) ==
  SelectSeq(solveLog, LAMBDA e : e.obj \in {analysis, analysis \o ".Solution"})

\* C20: when a topology-optimization script is about to invoke the
\* optimization solve, the optimization analysis has been linked with
\* TransferDataFrom to a structural analysis whose solve has been invoked and
\* whose latest solve ended Done.
C20_OptimizationAfterStructuralDone ==
  (script \in TopologyScripts /\ outcome = "running"
     /\ Steps[pc].op = "solve" /\ Steps[pc].arg = "TopologyOptimization") =>
    \E j \in Ops({"transfer"}) :
      /\ Steps[j].obj \o ".Solution" = Steps[pc].obj
      /\ SolvesOf(Steps[j].arg) # <<>>
      /\ SolvesOf(Steps[j].arg)[Len(SolvesOf(Steps[j].arg))].status = "Done"

\* C12: a process holds at most one App instance, the documentation build
\* included, where conf.py may have constructed one before the examples run.
C12_OneAppPerProcess ==
  ~twoApps

\* C16: when conf.py has run, the environment variable decides everything: set,
\* an App exists and "My Computer" is limited to one core and not distributed;
\* unset, no App exists and the solve configuration is the product's.  No
\* example has started before that, and on a GitHub build the limits are in
\* force whenever an example runs.
C16_ConfiguredBeforeAnyExample ==
  /\ outcome = "configured" =>
       IF envGithub
       THEN confApp /\ solveConfig = GithubSettings
       ELSE ~confApp /\ solveConfig = ProductSettings
  /\ outcome \in {"conf", "configured", "aborted"} => queue = GalleryExamples
  /\ ~envGithub => ~confApp
  /\ (envGithub /\ outcome \notin {"conf", "aborted"}) =>
       confApp /\ solveConfig = GithubSettings

C16_Witness ==
  /\ envGithub
  /\ outcome = "running"
  /\ Steps[pc].op = "solve"
  /\ solveConfig = GithubSettings

\* The fixture read at pc was downloaded by the script's own download_file
\* call and the script has not called delete_downloads yet.
ReadsOwnDownload ==
  /\ outcome \in {"running", "failed"}
  /\ Steps[pc].op \in {"read_fixture", "open"}
  /\ \E i \in Executed : Steps[i].op = "download" /\ Steps[i].arg = Steps[pc].arg
  /\ \A i \in Executed : Steps[i].op # "delete_downloads"

\* C13: whatever another script does to the shared cache at the same time, a
\* fixture a script has asked for with download_file is there each time the
\* script reads it before its own delete_downloads, and no read fails on a
\* missing file.
C13_FixturePresentWhenRead ==
  ReadsOwnDownload => (Steps[pc].arg \in cache /\ error # "FileNotFoundError")

\* C23: a run that has fetched a fixture and has ended, normally or on an
\* exception, has deleted its downloads and reset the application.
C23_CleanupOnEveryRun ==
  (outcome \in {"finished", "failed"} /\ downloaded # {}) =>
    /\ downloaded \cap cache = {}
    /\ "delete_downloads" \in Range(log)
    /\ "new" \in Range(log)

\* C29: no two export statements executed in one run write the same file.
C29_EachFileExportedOnce ==
  \A i \in Executed : \A j \in Executed :
    (i < j /\ Steps[i].op = "export" /\ Steps[j].op = "export") =>
      Steps[i].arg # Steps[j].arg

\* The call print_tree(root_node) has returned.
Returned == output # <<>> /\ frames = <<>>

RECURSIVE Depth(_)
\* The number of levels between a node and the root.
Depth(node) == IF project.parent[node] = 0 THEN 0 ELSE 1 + Depth(project.parent[node])

RECURSIVE Units(_)
\* k units of indentation.
Units(k) == IF k = 0 THEN "" ELSE Units(k - 1) \o "|  "

\* C28: on every finite project print_tree returns, and when it has returned
\* it has printed every node exactly once, a parent before its children, the
\* children of a node in Children order, each line indented one "|  " per
\* level of depth below the root; until then no node is printed twice and no
\* line is indented otherwise.
C28_PrintTreePrintsThePreorder ==
  LET PrintedAt(node) == {i \in DOMAIN output : output[i].name = node}
  IN /\ <>Returned
     /\ [](Returned =>
            /\ Len(output) = project.n
            /\ \A node \in Nodes : Cardinality(PrintedAt(node)) = 1
            /\ \A node \in Nodes : \A i \in PrintedAt(node) :
                 /\ project.parent[node] # 0 =>
                      \A j \in PrintedAt(project.parent[node]) : j < i
                 /\ \A other \in Nodes :
                      (project.parent[other] = project.parent[node] /\ other > node) =>
                        \A j \in PrintedAt(other) : i < j)
     /\ [](\A node \in Nodes : \A i \in PrintedAt(node) :
             /\ Cardinality(PrintedAt(node)) = 1
             /\ output[i].indentation = Units(Depth(node)))

\* C28 witness: a project three levels deep with two siblings has been
\* printed completely and the call has returned.
C28_Witness ==
  /\ Returned
  /\ project.n = MaxNodes
  /\ \E node \in Nodes : Depth(node) = 2
  /\ \E a \in Nodes : \E c \in Nodes : a # c /\ project.parent[a] = project.parent[c]
  /\ Len(output) = MaxNodes

\* C21: in the rubber boot seal script, every step number the script selects
\* through CurrentStepNumber lies in 1 .. NumberOfSteps when it is selected.
C21_SelectedStepExists ==
  (/\ script = "02_technology_showcase/non_linear_analsis_rubber_boot_seal.py"
   /\ outcome = "running"
   /\ Steps[pc].op = "select_step") =>
    IndexOf(Steps[pc].arg) \in 1 .. stepSettings.NumberOfSteps

\* C26: the step that displays solve.out prints the file only if it exists;
\* when the file is absent the step is skipped and nothing is raised, so no
\* run ends at that step with the file not found.
C26_AbsentSolveOutIsSkipped ==
  ~ (/\ outcome = "failed"
     /\ Steps[pc].op = "show_solve_out"
     /\ error = "FileNotFoundError")

\* C22: every lookup by name matches exactly one object: the script gives no
\* name to two objects, and every lookup it evaluates takes element [0], the
\* only match (a lookup that takes element [1] is evaluated only where at
\* least two objects carry the name).
C22_LookupsMatchOneObject ==
  /\ \A v \in DOMAIN named : \A w \in DOMAIN named :
       v # w => named[v] # named[w]
  /\ lastLookup.name # "" => lastLookup.index = 0

C25_WearScriptsAgree ==
  (/\ script = "02_technology_showcase/conact_wear_simulation.py"
   /\ outcome = "finished"
   /\ reference # <<>>) =>
    Summary = reference[1]

====
